---- MODULE Spec2Model ----
(***************************************************************************)
(* DriveBuild sim node: one registered session (a Simulation and its       *)
(* SimulationData), its verification scheduler, the per-session message    *)
(* channel handler, the main-app message handler and the AIStatus          *)
(* handshake.                                                              *)
(*                                                                         *)
(* Threads of the model                                                    *)
(*   rt    Simulation._run_runtime_verification (the runtime thread)       *)
(*   cy    _run_verification_cycles (the cycles thread started by rt)      *)
(*   sess  the handler of the session's channel (_handle_simulation_message*)
(*         serving the requests of rt and cy, one at a time)               *)
(*   main  the handler of the main-app connection (_handle_main_app_message*)
(*         run by process_messages on one thread, one request at a time)   *)
(*   node  the handler of the sim node's own channel                        *)
(*         (_handle_sim_node_message)                                      *)
(*   sess2 the channel handler of a second Simulation that was given the   *)
(*         same SimulationID; it only exists in HandshakeSpec              *)
(***************************************************************************)
EXTENDS Integers, Sequences, FiniteSets, TLC

\* ------------------------------------------------------------------ bounds
\* TIMEOUT of config, in clock ticks of the model
TIMEOUT == 1
\* number of waitForSimulatorRequest calls the AI clients issue
MaxWaitCalls == 2
\* number of simulation-level control requests the main app forwards
MaxControls == 1
\* Simulation objects, the registered one included
MaxSims == 3
\* concurrent calls of _start_simulation
MaxStarters == 3
\* requests sent through send_message_to_sim_node
MaxRequests == 3
\* refused connection attempts that are counted
MaxRefused == 2
\* concurrent calls of _wait_for_simulator_request
MaxCallers == 2
\* calls of start_server on one Simulation
MaxStartCalls == 2
\* concurrent calls of run_test_case
MaxRuns == 3

\* --------------------------------------------------------------- constants
\* the vehicles of the scenario, in the order _get_vids reports them
Vids == <<"v1", "v2">>
VidSet == {Vids[i] : i \in 1..Len(Vids)}

KPValue == {"TRUE", "FALSE", "UNKNOWN"}
TestResult == {"SUCCEEDED", "FAILED", "SKIPPED", "UNKNOWN"}
AIStatus == {"READY", "WAITING", "REQUESTED"}
MovementMode == {"MANUAL", "AUTONOMOUS", "TRAINING", "_BEAMNG"}
SimCommand == {"SUCCEED", "FAIL", "CANCEL"}
SimState == {"RUNNING", "FINISHED", "CANCELED", "ERRORED", "UNKNOWN"}

\* the initial_state.mode of the participants in the scenarios that are run
Scenarios ==
    { [v \in VidSet |-> IF v = "v1" THEN "AUTONOMOUS" ELSE "MANUAL"],
      [v \in VidSet |-> IF v = "v1" THEN "TRAINING" ELSE "_BEAMNG"] }

\* no entry for the vehicle in _registered_ais[sid]
Absent == "absent"
\* ExtAsyncResult._status before any set_state
NoState == "None"
\* get_current_movement_mode found no mode file
NoFile == "None"
\* an empty response to verify
EmptyResponse == [precondition |-> "", failure |-> "", success |-> ""]
NoVerification == [precondition |-> "-", failure |-> "-", success |-> "-"]

\* the SimulationID of the session, and one no Simulation of _all_tasks has
SID == "sim_1"
OtherSID == "sim_2"
SimulationIDs == {SID, OtherSID}
\* the identifiers _generate_sid draws from
SidCandidates == SimulationIDs \cup {"sim_3"}
\* the Simulation objects: 1 is the session that is registered from the start
SimIds == 1..MaxSims
\* the handler threads that serve a wait call side by side
Callers == 1..MaxCallers
\* the threads that call run_test_case side by side
Runners == 1..MaxRuns
\* the startups that call _start_simulation side by side
Starters == 1..MaxStarters
\* the initial value of the static port and the step of the probe
FirstPort == 60000
\* config.FIRST_SIM_PORT, the first port of the message channels; ports are
\* written relative to it
FIRST_SIM_PORT == 0
PortStep == 200
\* the ways the try block of _start_simulation ends
LaunchOutcomes == {"ok", "OSError", "BNGValueError"}
\* retry_delay of send_message_to_sim_node
RetryDelay == 5
\* the task states _status and _wait_for_simulator_request report as ERRORED
Unset == {NoState, "UNKNOWN"}
\* a handler of the main app is between reading the simulator handle and
\* writing its SimStateResponse
ResponsePcs == {"w_resp", "w_succeeded", "w_failed", "w_skipped",
                "st_bng", "st_succeeded", "st_failed", "st_skipped"}
\* no StateCondition constructed
NoCriterion == [kind |-> "-", participant |-> "-"]
\* no response written yet
NoReply == [handler |-> "-", action |-> "-", payload |-> "-"]

Threads == {"rt", "cy", "sess", "main", "sess2", "node"}
ControlThreads == {"sess", "main"}
GrantThreads == {"sess", "sess2"}

VARIABLES
    pc,               \* position of every thread
    clock,            \* (datetime.now() - test_start_time).seconds
    test_case_result, \* local of _run_verification_cycles
    verification,     \* locals precondition, failure, success of the cycle
    mode,             \* local mode of _request_control_avs
    vidx,             \* position of the for loop of _request_control_avs
    result_queue,     \* the Queue between cy and rt
    result,           \* TestResult of rt, filled from the queue
    init_mode,        \* initial_state.mode of every participant
    req_vid,          \* vid argument of the _request_ai_for call of a handler
    cmd,              \* command argument of the _control_sim call of a handler
    wait_vid,         \* vid argument of the _wait_for_simulator_request call
    registered_sid,   \* sid in _registered_ais
    registered_ais,   \* _registered_ais[sid]
    bng,              \* _get_data(sid).scenario.bng is not None
    task_state,       \* _get_data(sid).simulation_task._status
    stored,           \* end_time set and data handed to store_data
    user_path,        \* the working directory of the simulation exists
    waits_written,    \* per vehicle, the wait calls that have written WAITING
    controls,         \* control requests the main app has forwarded
    hist,             \* observations of the run, read by no action guard
    operands,         \* the KPValues handed to the criteria code under evaluation
    evaluated,        \* the operator or eval method of criteria.py applied last
    value,            \* what it returned
    all_tasks,        \* the SimulationIDs of the keys of _all_tasks
    status_sid,       \* sid argument of the _status call of the main handler
    reply,            \* the last response to a status or an unknown action
    criterion,        \* the StateCondition that has been constructed
    sims,             \* the Simulation objects run_test_case has created
    batch,            \* the runTests call of the main handler
    lock,             \* Simulation._start_simulation.lock: its holder
    static_port,      \* Simulation._start_simulation.port
    starting,         \* the _start_simulation calls of concurrent startups
    listening,        \* the ports a simulator listens on
    link,             \* send_message_to_sim_node of one Simulation
    launch,           \* how the try block of _start_simulation ended
    callers,          \* concurrent calls of _wait_for_simulator_request
    counter,          \* run_test_case.counter
    runs              \* concurrent calls of run_test_case

vars == <<pc, clock, test_case_result, verification, mode, vidx, result_queue,
          result, init_mode, req_vid, cmd, wait_vid, registered_sid,
          registered_ais, bng, task_state, stored, user_path, waits_written,
          controls, hist, operands, evaluated, value, all_tasks, status_sid,
          reply, criterion, sims, batch, lock, static_port, starting, listening,
          link, launch, callers, counter, runs>>

schedVars == <<test_case_result, verification, mode, vidx, result_queue, result>>
aiVars == <<registered_sid, registered_ais>>
dataVars == <<bng, task_state, stored, user_path>>
argVars == <<req_vid, cmd, wait_vid>>
envVars == <<waits_written, controls>>
critVars == <<operands, evaluated, value>>
dispatchVars == <<all_tasks, status_sid, reply>>
\* what is set up before the scheduler of a session runs
registryVars == <<sims, batch>>
portVars == <<lock, static_port, starting, listening>>
counterVars == <<counter, runs>>
startVars == <<criterion, registryVars, portVars, link, launch, callers, counterVars>>

Goto(t, p) == pc' = [pc EXCEPT ![t] = p]

\* a request is written to the session's channel by send_message_to_sim_node
Sent(action) ==
    [hist EXCEPT !.last_sent = action,
                 !.after_stop = @ \/ hist.stops_sent > 0]

InitHist ==
    [ last_sent      |-> "-",
      stops_sent     |-> 0,
      stop_result    |-> "-",
      after_stop     |-> FALSE,
      cycles         |-> 0,
      all_unknown    |-> TRUE,
      set_count      |-> 0,
      grants_written |-> [v \in VidSet |-> 0],
      mode_file      |-> NoFile,
      wait_ret       |-> "-",
      unset_seen     |-> FALSE,
      handshake      |-> "-" ]

InitLink ==
    [pc |-> "idle", socket |-> FALSE, server |-> FALSE, connects |-> 0, refused |-> 0,
     sent |-> 0, slept |-> 0, action |-> "-",
     start_calls |-> 0, server_socket |-> 0, accept_threads |-> 0, value_errors |-> 0]

InitSession ==
    /\ clock = 0
    /\ test_case_result = "UNKNOWN"
    /\ verification = NoVerification
    /\ mode = NoFile
    /\ vidx = 1
    /\ result_queue = <<>>
    /\ result = "-"
    /\ init_mode \in Scenarios
    /\ req_vid = [t \in GrantThreads |-> "-"]
    /\ cmd = [t \in ControlThreads |-> "-"]
    /\ wait_vid = "-"
    /\ registered_sid = FALSE
    /\ registered_ais = [v \in VidSet |-> Absent]
    /\ task_state = NoState
    /\ stored = FALSE
    /\ user_path = TRUE
    /\ waits_written = [v \in VidSet |-> 0]
    /\ controls = 0
    /\ hist = InitHist
    /\ all_tasks = {SID}
    /\ status_sid = "-"
    /\ reply = NoReply
    /\ criterion = NoCriterion
    /\ sims = [i \in SimIds |->
                IF i = 1
                THEN [sid |-> SID, phase |-> "started", registered |-> TRUE, server |-> TRUE]
                ELSE [sid |-> "-", phase |-> "none", registered |-> FALSE, server |-> FALSE]]
    /\ batch = [todo |-> 0, new_tasks |-> <<>>, sid |-> "-", redrawn |-> FALSE]
    /\ lock = 0
    /\ static_port = FirstPort
    /\ starting = [s \in Starters |-> [pc |-> "idle", port |-> 0, outcome |-> "-", bound |-> FALSE]]
    /\ listening = {}
    /\ link = InitLink
    /\ callers = [c \in Callers |-> [pc |-> "idle", vid |-> "-"]]
    /\ counter = 0
    /\ runs = [r \in Runners |-> [pc |-> "idle", port |-> -1, loaded |-> -1]]

\* no criterion is under evaluation
InitNoCriteria ==
    /\ operands = <<"UNKNOWN", "UNKNOWN", "UNKNOWN">>
    /\ evaluated = "-"
    /\ value = "-"

InitCommon ==
    /\ InitSession
    /\ InitNoCriteria
    /\ bng = TRUE
    /\ launch = "ok"

Init ==
    /\ InitCommon
    /\ pc = [t \in Threads |->
               CASE t = "rt" -> "vids"
                 [] t = "cy" -> "off"
                 [] t = "sess2" -> "off"
                 [] OTHER -> "idle"]

\* ------------------------------------------------------------------ time
Tick ==
    /\ pc["rt"] \notin {"vids", "start"}
    /\ clock < TIMEOUT
    /\ clock' = clock + 1
    /\ UNCHANGED <<pc, schedVars, init_mode, startVars, critVars, dispatchVars, argVars, aiVars, dataVars, envVars, hist>>


\* ------------------------------------------- the verification scheduler
\* _get_verification: the parsed response, or three UNKNOWNs for an empty one
GetVerification(response) ==
    IF response # EmptyResponse
    THEN response
    ELSE [precondition |-> "UNKNOWN", failure |-> "UNKNOWN", success |-> "UNKNOWN"]

\* variant: the failure criterion is looked at before the precondition
MapVerificationFailureFirst(precondition, failure, success) ==
    IF failure = "TRUE" THEN "FAILED"
    ELSE IF precondition = "FALSE" THEN "SKIPPED"
    ELSE IF success = "TRUE" THEN "SUCCEEDED"
    ELSE "UNKNOWN"

\* variant: a success criterion that is not FALSE counts as fulfilled
MapVerificationLenient(precondition, failure, success) ==
    IF precondition = "FALSE" THEN "SKIPPED"
    ELSE IF failure = "TRUE" THEN "FAILED"
    ELSE IF success # "FALSE" THEN "SUCCEEDED"
    ELSE "UNKNOWN"

\* the if/elif chain of a cycle; UNKNOWN leaves test_case_result as it is
MapVerification(precondition, failure, success) ==
    IF precondition = "FALSE" THEN "SKIPPED"
    ELSE IF failure = "TRUE" THEN "FAILED"
    ELSE IF success = "TRUE" THEN "SUCCEEDED"
    ELSE "UNKNOWN"

\* the condition of the while loop of _run_verification_cycles
LoopCondition == test_case_result = "UNKNOWN" /\ clock < TIMEOUT

\* get_current_movement_mode: the mode in the mode file, None without a file
CurrentMovementMode(file) == IF file # NoFile THEN file ELSE NoFile

\* variant: the mode file is not consulted
ControlModeInitialOnly(v, file) == init_mode[v]

\* the mode _request_control_avs decides on
ControlMode(v, file) ==
    IF CurrentMovementMode(file) = NoFile THEN init_mode[v] ELSE CurrentMovementMode(file)

\* the modes for which _request_control_avs requests the AI
RequestsAi(m) == m \in {"AUTONOMOUS", "TRAINING", "_BEAMNG"}

\* _is_simulation_running
IsSimulationRunning == bng

\* cycles_thread.join(TIMEOUT) returns: the thread ended or the time is up
JoinReturns == pc["cy"] \in {"done", "dead"} \/ clock >= TIMEOUT

\* what the client sees of a request whose handler raised: the thread of the
\* caller ends with the failed exchange, or the exchange yields a payload
AfterRaise(t, next) == Goto(t, next) \/ Goto(t, "dead")

RtVids ==
    /\ pc["rt"] = "vids"
    /\ hist' = Sent("vids")
    /\ Goto("rt", "start")
    /\ UNCHANGED <<clock, schedVars, init_mode, startVars, critVars, dispatchVars, argVars, aiVars, dataVars, envVars>>

RtStartCycles ==
    /\ pc["rt"] = "start"
    /\ pc' = [pc EXCEPT !["rt"] = "join", !["cy"] = "loop"]
    /\ UNCHANGED <<clock, schedVars, init_mode, startVars, critVars, dispatchVars, argVars, aiVars, dataVars, envVars, hist>>

RtJoin ==
    /\ pc["rt"] = "join"
    /\ JoinReturns
    /\ Goto("rt", "get")
    /\ UNCHANGED <<clock, schedVars, init_mode, startVars, critVars, dispatchVars, argVars, aiVars, dataVars, envVars, hist>>

\* variant: the queue is read without waiting for the cycles thread
RtGetNoWait ==
    /\ pc["rt"] = "get"
    /\ IF result_queue # <<>>
       THEN result' = Head(result_queue) /\ result_queue' = Tail(result_queue)
       ELSE result' = "UNKNOWN" /\ result_queue' = result_queue
    /\ Goto("rt", "stop")
    /\ UNCHANGED <<clock, test_case_result, verification, mode, vidx, init_mode, startVars, critVars, dispatchVars,
                   argVars, aiVars, dataVars, envVars, hist>>

RtGet ==
    /\ pc["rt"] = "get"
    /\ result_queue # <<>>
    /\ result' = Head(result_queue)
    /\ result_queue' = Tail(result_queue)
    /\ Goto("rt", "stop")
    /\ UNCHANGED <<clock, test_case_result, verification, mode, vidx, init_mode, startVars, critVars, dispatchVars,
                   argVars, aiVars, dataVars, envVars, hist>>

RtStop ==
    /\ pc["rt"] = "stop"
    /\ pc["sess"] = "idle"
    /\ hist' = [Sent("stop") EXCEPT !.stops_sent = @ + 1, !.stop_result = result]
    /\ cmd' = [cmd EXCEPT !["sess"] = result]
    /\ pc' = [pc EXCEPT !["rt"] = "stop_resp", !["sess"] = "cs_set"]
    /\ UNCHANGED <<clock, schedVars, init_mode, startVars, critVars, dispatchVars, req_vid, wait_vid, aiVars, dataVars, envVars>>

RtStopResponse ==
    /\ pc["rt"] = "stop_resp"
    /\ pc["sess"] = "cs_ret"
    /\ pc' = [pc EXCEPT !["rt"] = "done", !["sess"] = "idle"]
    /\ UNCHANGED <<clock, schedVars, init_mode, startVars, critVars, dispatchVars, argVars, aiVars, dataVars, envVars, hist>>

RtStopRaised ==
    /\ pc["rt"] = "stop_resp"
    /\ pc["sess"] = "cs_raised"
    /\ \E p \in {"done", "dead"} : pc' = [pc EXCEPT !["rt"] = p, !["sess"] = "dead"]
    /\ UNCHANGED <<clock, schedVars, init_mode, startVars, critVars, dispatchVars, argVars, aiVars, dataVars, envVars, hist>>

CyLoop ==
    /\ pc["cy"] = "loop"
    /\ IF LoopCondition THEN Goto("cy", "isrunning") ELSE Goto("cy", "put")
    /\ UNCHANGED <<clock, schedVars, init_mode, startVars, critVars, dispatchVars, argVars, aiVars, dataVars, envVars, hist>>

\* variant: the answer to isRunning is not looked at
CyIsRunningUnobserved ==
    /\ pc["cy"] = "isrunning"
    /\ hist' = Sent("isRunning")
    /\ Goto("cy", "poll")
    /\ UNCHANGED <<clock, schedVars, init_mode, startVars, critVars, dispatchVars, argVars, aiVars, dataVars, envVars>>

CyIsRunning ==
    /\ pc["cy"] = "isrunning"
    /\ hist' = Sent("isRunning")
    /\ IF IsSimulationRunning THEN Goto("cy", "poll") ELSE Goto("cy", "put")
    /\ UNCHANGED <<clock, schedVars, init_mode, startVars, critVars, dispatchVars, argVars, aiVars, dataVars, envVars>>

\* _poll_sensors calls bng.poll_sensors for every vehicle
CyPollSensors ==
    /\ pc["cy"] = "poll"
    /\ hist' = Sent("pollSensors")
    /\ IF bng THEN Goto("cy", "verify") ELSE AfterRaise("cy", "verify")
    /\ UNCHANGED <<clock, schedVars, init_mode, startVars, critVars, dispatchVars, argVars, aiVars, dataVars, envVars>>

CyVerify ==
    /\ pc["cy"] = "verify"
    /\ \E response \in [precondition : KPValue, failure : KPValue, success : KPValue]
                          \cup {EmptyResponse} :
          /\ verification' = GetVerification(response)
          /\ hist' = [Sent("verify") EXCEPT
                        !.cycles = IF @ < 2 THEN @ + 1 ELSE @,
                        !.all_unknown = @ /\ verification'.precondition = "UNKNOWN"
                                          /\ verification'.failure = "UNKNOWN"
                                          /\ verification'.success = "UNKNOWN"]
    /\ Goto("cy", "map")
    /\ UNCHANGED <<clock, test_case_result, mode, vidx, result_queue, result, init_mode, startVars, critVars, dispatchVars,
                   argVars, aiVars, dataVars, envVars>>

\* the if/elif chain; its else branch enters _request_control_avs
CyMap ==
    /\ pc["cy"] = "map"
    /\ LET r == MapVerification(verification.precondition, verification.failure,
                                verification.success)
       IN  IF r # "UNKNOWN"
           THEN /\ test_case_result' = r
                /\ Goto("cy", "loop")
                /\ vidx' = vidx
           ELSE /\ test_case_result' = test_case_result
                /\ Goto("cy", "avs")
                /\ vidx' = 1
    /\ verification' = NoVerification
    /\ UNCHANGED <<clock, mode, result_queue, result, init_mode, startVars, critVars, dispatchVars, argVars, aiVars,
                   dataVars, envVars, hist>>

\* variant: the for loop ends after its first vehicle
AvsLoopDoneAfterFirst == vidx > 1

\* the for loop of _request_control_avs has gone through vids
AvsLoopDone == vidx > Len(Vids)

CyReadMode ==
    /\ pc["cy"] = "avs"
    /\ ~AvsLoopDone
    /\ \E file \in MovementMode \cup {NoFile} :
          /\ mode' = ControlMode(Vids[vidx], file)
          /\ hist' = [hist EXCEPT !.mode_file = CurrentMovementMode(file)]
    /\ Goto("cy", "avs_mode")
    /\ UNCHANGED <<clock, test_case_result, verification, vidx, result_queue, result,
                   init_mode, startVars, critVars, dispatchVars, argVars, aiVars, dataVars, envVars>>

CyRequestAi ==
    /\ pc["cy"] = "avs_mode"
    /\ RequestsAi(mode)
    /\ pc["sess"] = "idle"
    /\ hist' = [Sent("requestAiFor") EXCEPT !.mode_file = NoFile]
    /\ mode' = NoFile
    /\ req_vid' = [req_vid EXCEPT !["sess"] = Vids[vidx]]
    /\ pc' = [pc EXCEPT !["cy"] = "ai_resp", !["sess"] = "g_wait"]
    /\ UNCHANGED <<clock, test_case_result, verification, vidx, result_queue, result,
                   init_mode, startVars, critVars, dispatchVars, cmd, wait_vid, aiVars, dataVars, envVars>>

CyNoAi ==
    /\ pc["cy"] = "avs_mode"
    /\ ~RequestsAi(mode)
    /\ vidx' = vidx + 1
    /\ hist' = [hist EXCEPT !.mode_file = NoFile]
    /\ mode' = NoFile
    /\ Goto("cy", "avs")
    /\ UNCHANGED <<clock, test_case_result, verification, result_queue, result,
                   init_mode, startVars, critVars, dispatchVars, argVars, aiVars, dataVars, envVars>>

CyAiResponse ==
    /\ pc["cy"] = "ai_resp"
    /\ pc["sess"] = "g_ret"
    /\ vidx' = vidx + 1
    /\ pc' = [pc EXCEPT !["cy"] = "avs", !["sess"] = "idle"]
    /\ UNCHANGED <<clock, test_case_result, verification, mode, result_queue, result,
                   init_mode, startVars, critVars, dispatchVars, argVars, aiVars, dataVars, envVars, hist>>

CyStoreCycle ==
    /\ pc["cy"] = "avs"
    /\ AvsLoopDone
    /\ hist' = Sent("storeVerificationCycle")
    /\ Goto("cy", "steps")
    /\ UNCHANGED <<clock, schedVars, init_mode, startVars, critVars, dispatchVars, argVars, aiVars, dataVars, envVars>>

\* the steps handler calls bng.step
CySteps ==
    /\ pc["cy"] = "steps"
    /\ hist' = Sent("steps")
    /\ IF bng THEN Goto("cy", "loop") ELSE AfterRaise("cy", "loop")
    /\ UNCHANGED <<clock, schedVars, init_mode, startVars, critVars, dispatchVars, argVars, aiVars, dataVars, envVars>>

CyPut ==
    /\ pc["cy"] = "put"
    /\ result_queue' = Append(result_queue, test_case_result)
    /\ Goto("cy", "done")
    /\ UNCHANGED <<clock, test_case_result, verification, mode, vidx, result,
                   init_mode, startVars, critVars, dispatchVars, argVars, aiVars, dataVars, envVars, hist>>


\* ------------------------------------------------- the AIStatus handshake
\* variant: the grant does not wait for the entry
GrantLoopConditionNoWait(v) == FALSE

\* the condition of the first loop of _request_ai_for
GrantLoopCondition(v) ==
    \/ ~registered_sid
    \/ registered_ais[v] = Absent
    \/ registered_ais[v] # "WAITING"

\* variant: the grant returns without waiting for the client
GrantPendingNoWait(v) == FALSE

\* the condition of the second loop of _request_ai_for
GrantPending(v) == registered_ais[v] = "REQUESTED"

\* variant: the loop polls for the wrong status
WaitLoopConditionWrongStatus(v) == IsSimulationRunning /\ registered_ais[v] = "REQUESTED"

\* variant: the loop does not look at the simulator
WaitLoopConditionStatusOnly(v) == registered_ais[v] = "WAITING"

\* the condition of the loop of _wait_for_simulator_request
WaitLoopCondition(v) == IsSimulationRunning /\ registered_ais[v] = "WAITING"

\* the wait call for v has registered and has not returned
WaitIsPending(v) ==
    /\ wait_vid = v
    /\ pc["main"] \in {"w_poll", "w_resp", "w_succeeded", "w_failed", "w_skipped"}

GrantObserved(t) ==
    /\ pc[t] = "g_wait"
    /\ ~GrantLoopCondition(req_vid[t])
    /\ Goto(t, "g_write")
    /\ UNCHANGED <<clock, schedVars, init_mode, startVars, critVars, dispatchVars, argVars, aiVars, dataVars, envVars, hist>>

GrantWrite(t) ==
    /\ pc[t] = "g_write"
    /\ registered_ais' = [registered_ais EXCEPT ![req_vid[t]] = "REQUESTED"]
    /\ hist' = [hist EXCEPT !.grants_written[req_vid[t]] = @ + 1,
                            !.handshake = IF WaitIsPending(req_vid[t]) THEN "granted" ELSE "-"]
    /\ Goto(t, "g_poll")
    /\ UNCHANGED <<clock, schedVars, init_mode, startVars, critVars, dispatchVars, argVars, registered_sid, dataVars, envVars>>

GrantConsumed(t) ==
    /\ pc[t] = "g_poll"
    /\ ~GrantPending(req_vid[t])
    /\ Goto(t, "g_ret")
    /\ UNCHANGED <<clock, schedVars, init_mode, startVars, critVars, dispatchVars, argVars, aiVars, dataVars, envVars, hist>>

RECURSIVE SumOver(_, _)
SumOver(f, S) ==
    IF S = {} THEN 0
    ELSE LET x == CHOOSE y \in S : TRUE IN f[x] + SumOver(f, S \ {x})

\* every wait call the handler has started has written WAITING when it is idle
WaitCallsIssued == SumOver(waits_written, VidSet)

\* the main app forwards waitForSimulatorRequest of the AI client of v
StartWait(v) ==
    /\ pc["main"] = "idle"
    /\ WaitCallsIssued < MaxWaitCalls
    /\ wait_vid' = v
    /\ hist' = [hist EXCEPT !.wait_ret = "-"]
    /\ Goto("main", "w_check")
    /\ UNCHANGED <<clock, schedVars, init_mode, startVars, critVars, dispatchVars, req_vid, cmd, aiVars, dataVars, envVars>>

WaitCheck ==
    /\ pc["main"] = "w_check"
    /\ IF ~registered_sid THEN Goto("main", "w_create") ELSE Goto("main", "w_write")
    /\ UNCHANGED <<clock, schedVars, init_mode, startVars, critVars, dispatchVars, argVars, aiVars, dataVars, envVars, hist>>

WaitCreate ==
    /\ pc["main"] = "w_create"
    /\ registered_sid' = TRUE
    /\ registered_ais' = [v \in VidSet |-> Absent]
    /\ Goto("main", "w_write")
    /\ UNCHANGED <<clock, schedVars, init_mode, startVars, critVars, dispatchVars, argVars, dataVars, envVars, hist>>

WaitWrite ==
    /\ pc["main"] = "w_write"
    /\ registered_ais' = [registered_ais EXCEPT ![wait_vid] = "WAITING"]
    /\ waits_written' = [waits_written EXCEPT ![wait_vid] = @ + 1]
    /\ Goto("main", "w_poll")
    /\ UNCHANGED <<clock, schedVars, init_mode, startVars, critVars, dispatchVars, argVars, registered_sid, dataVars,
                   controls, hist>>

WaitWoken ==
    /\ pc["main"] = "w_poll"
    /\ ~WaitLoopCondition(wait_vid)
    /\ hist' = [hist EXCEPT !.unset_seen = task_state \in Unset]
    /\ Goto("main", "w_resp")
    /\ UNCHANGED <<clock, schedVars, init_mode, startVars, critVars, dispatchVars, argVars, aiVars,
                   dataVars, envVars>>

\* the handler returns the response to the main app
WaitReturn(state) ==
    /\ hist' = [hist EXCEPT !.wait_ret = state, !.unset_seen = FALSE,
                            !.handshake = IF @ = "granted" THEN "woken" ELSE @]
    /\ wait_vid' = wait_vid
    /\ Goto("main", "idle")

WaitRespond ==
    /\ pc["main"] = "w_resp"
    /\ IF bng
       THEN WaitReturn("RUNNING")
       ELSE Goto("main", "w_succeeded") /\ UNCHANGED <<wait_vid, hist>>
    /\ UNCHANGED <<clock, schedVars, init_mode, startVars, critVars, dispatchVars, req_vid, cmd, aiVars, dataVars, envVars>>

WaitIsSucceeded ==
    /\ pc["main"] = "w_succeeded"
    /\ IF task_state = "SUCCEEDED"
       THEN WaitReturn("FINISHED")
       ELSE Goto("main", "w_failed") /\ UNCHANGED <<wait_vid, hist>>
    /\ UNCHANGED <<clock, schedVars, init_mode, startVars, critVars, dispatchVars, req_vid, cmd, aiVars, dataVars, envVars>>

WaitIsFailed ==
    /\ pc["main"] = "w_failed"
    /\ IF task_state = "FAILED"
       THEN WaitReturn("FINISHED")
       ELSE Goto("main", "w_skipped") /\ UNCHANGED <<wait_vid, hist>>
    /\ UNCHANGED <<clock, schedVars, init_mode, startVars, critVars, dispatchVars, req_vid, cmd, aiVars, dataVars, envVars>>

WaitIsSkipped ==
    /\ pc["main"] = "w_skipped"
    /\ IF task_state = "SKIPPED" THEN WaitReturn("CANCELED") ELSE WaitReturn("ERRORED")
    /\ UNCHANGED <<clock, schedVars, init_mode, startVars, critVars, dispatchVars, req_vid, cmd, aiVars, dataVars, envVars>>

\* ------------------------------------------------------------ _control_sim
\* the state _control_sim sets: the mapped command of a direct call (control
\* of the main app), the given TestResult otherwise (stop of the scheduler)
StateToSet(t) ==
    IF t = "main"
    THEN CASE cmd[t] = "SUCCEED" -> "SUCCEEDED"
           [] cmd[t] = "FAIL" -> "FAILED"
           [] cmd[t] = "CANCEL" -> "SKIPPED"
    ELSE cmd[t]

\* the main app forwards a control request with a simCommand
StartControl(c) ==
    /\ pc["main"] = "idle"
    /\ controls < MaxControls
    /\ controls' = controls + 1
    /\ cmd' = [cmd EXCEPT !["main"] = c]
    /\ Goto("main", "cs_set")
    /\ UNCHANGED <<clock, schedVars, init_mode, startVars, critVars, dispatchVars, req_vid, wait_vid, aiVars, dataVars,
                   waits_written, hist>>

\* variant: the state is not set before the simulator is closed
ControlSetStateSkipped(t) ==
    /\ pc[t] = "cs_set"
    /\ Goto(t, "cs_close")
    /\ UNCHANGED <<clock, schedVars, init_mode, startVars, critVars, dispatchVars, argVars, aiVars, dataVars,
                   envVars, hist>>

ControlSetState(t) ==
    /\ pc[t] = "cs_set"
    /\ task_state' = StateToSet(t)
    /\ hist' = [hist EXCEPT !.set_count = @ + 1,
                            !.unset_seen = IF pc["main"] \in ResponsePcs
                                           THEN @ \/ StateToSet(t) \in Unset
                                           ELSE @]
    /\ Goto(t, "cs_close")
    /\ UNCHANGED <<clock, schedVars, init_mode, startVars, critVars, dispatchVars, argVars, aiVars, bng, stored, user_path,
                   envVars>>

\* data.scenario.bng.close(): closing leaves scenario.bng None, and close on
\* None raises
ControlClose(t) ==
    /\ pc[t] = "cs_close"
    /\ IF bng
       THEN bng' = FALSE /\ Goto(t, "cs_store")
       ELSE bng' = bng /\ Goto(t, "cs_raised")
    /\ UNCHANGED <<clock, schedVars, init_mode, startVars, critVars, dispatchVars, argVars, aiVars, task_state, stored,
                   user_path, envVars, hist>>

ControlStore(t) ==
    /\ pc[t] = "cs_store"
    /\ stored' = TRUE
    /\ Goto(t, "cs_rmtree")
    /\ UNCHANGED <<clock, schedVars, init_mode, startVars, critVars, dispatchVars, argVars, aiVars, bng, task_state,
                   user_path, envVars, hist>>

ControlRmtree(t) ==
    /\ pc[t] = "cs_rmtree"
    /\ user_path' = FALSE
    /\ Goto(t, "cs_ret")
    /\ UNCHANGED <<clock, schedVars, init_mode, startVars, critVars, dispatchVars, argVars, aiVars, bng, task_state,
                   stored, envVars, hist>>

ControlReturn ==
    /\ pc["main"] = "cs_ret"
    /\ Goto("main", "idle")
    /\ cmd' = [cmd EXCEPT !["main"] = "-"]
    /\ UNCHANGED <<clock, schedVars, init_mode, startVars, critVars, dispatchVars, req_vid, wait_vid, aiVars, dataVars,
                   envVars, hist>>

ControlRaised ==
    /\ pc["main"] = "cs_raised"
    /\ AfterRaise("main", "idle")
    /\ cmd' = [cmd EXCEPT !["main"] = "-"]
    /\ UNCHANGED <<clock, schedVars, init_mode, startVars, critVars, dispatchVars, req_vid, wait_vid, aiVars, dataVars,
                   envVars, hist>>

\* ------------------------------------------------------------ behaviours
RuntimeThread ==
    \/ RtVids \/ RtStartCycles \/ RtJoin \/ RtGet \/ RtStop
    \/ RtStopResponse \/ RtStopRaised

CyclesThread ==
    \/ CyLoop \/ CyIsRunning \/ CyPollSensors \/ CyVerify \/ CyMap \/ CyReadMode
    \/ CyRequestAi \/ CyNoAi \/ CyAiResponse \/ CyStoreCycle \/ CySteps \/ CyPut

SessionHandler ==
    \/ GrantObserved("sess") \/ GrantWrite("sess") \/ GrantConsumed("sess")
    \/ ControlSetState("sess") \/ ControlClose("sess")
    \/ ControlStore("sess") \/ ControlRmtree("sess")

MainHandler ==
    \/ WaitCheck \/ WaitCreate \/ WaitWrite \/ WaitWoken \/ WaitRespond
    \/ WaitIsSucceeded \/ WaitIsFailed \/ WaitIsSkipped
    \/ ControlSetState("main") \/ ControlClose("main")
    \/ ControlStore("main") \/ ControlRmtree("main")
    \/ ControlReturn \/ ControlRaised

Requests ==
    \/ \E v \in VidSet : StartWait(v)
    \/ \E c \in SimCommand : StartControl(c)

Next == Tick \/ RuntimeThread \/ CyclesThread \/ SessionHandler \/ MainHandler \/ Requests

Spec == Init /\ [][Next]_vars

\* Every thread that can take a step eventually takes one and time advances;
\* the AI clients and the main app are free to issue no request at all.
FairSpec ==
    /\ Spec
    /\ WF_vars(Tick)
    /\ WF_vars(RuntimeThread)
    /\ WF_vars(CyclesThread)
    /\ WF_vars(SessionHandler)
    /\ WF_vars(MainHandler)

\* ----------------------------------------------- concurrent grant calls
\* _handle_simulation_message is the handler of every Simulation's channel.
\* Two Simulations that hold the same SimulationID (_generate_sid only looks
\* at registered sessions, and _run_tests expects the collision) have their
\* requestAiFor requests served by two handler threads on the same entries.
RequestAiFor(t, v) ==
    /\ pc[t] = "idle"
    /\ req_vid' = [req_vid EXCEPT ![t] = v]
    /\ Goto(t, "g_wait")
    /\ UNCHANGED <<clock, schedVars, init_mode, startVars, critVars, dispatchVars, cmd, wait_vid, aiVars, dataVars,
                   envVars, hist>>

GrantReturn(t) ==
    /\ pc[t] = "g_ret"
    /\ Goto(t, "idle")
    /\ UNCHANGED <<clock, schedVars, init_mode, startVars, critVars, dispatchVars, argVars, aiVars, dataVars, envVars, hist>>

InitHandshake ==
    /\ InitCommon
    /\ pc = [t \in Threads |-> IF t \in {"rt", "cy"} THEN "off" ELSE "idle"]

NextHandshake ==
    \/ \E t \in GrantThreads :
          \/ \E v \in VidSet : RequestAiFor(t, v)
          \/ GrantObserved(t) \/ GrantWrite(t) \/ GrantConsumed(t) \/ GrantReturn(t)
    \/ \E v \in VidSet : StartWait(v)
    \/ WaitCheck \/ WaitCreate \/ WaitWrite \/ WaitWoken \/ WaitRespond

HandshakeSpec == InitHandshake /\ [][NextHandshake]_vars


\* ------------------------------------------------- types/criteria.py
\* Enum members are written by their names; member.value is the object the
\* class body assigned: TRUE = True, and FALSE = False, end with a comma and
\* hold one-element tuples, UNKNOWN holds None
MemberValue(member) ==
    CASE member = "TRUE" -> "(True,)"
      [] member = "FALSE" -> "(False,)"
      [] member = "UNKNOWN" -> "None"

\* bool(member): Enum defines neither __bool__ nor __len__
Truth(member) == TRUE

\* variant: the operator hands back its left operand
KPValue_andLeftOperand(self, other) == self

\* KPValue.__and__: self.value and other.value are compared with members
KPValue_and(self, other) ==
    IF MemberValue(self) = "FALSE" \/ MemberValue(other) = "FALSE" THEN "FALSE"
    ELSE IF MemberValue(self) = "UNKNOWN" \/ MemberValue(other) = "UNKNOWN" THEN "UNKNOWN"
    ELSE "TRUE"

\* KPValue.__or__
KPValue_or(self, other) ==
    IF MemberValue(self) = "TRUE" \/ MemberValue(other) = "TRUE" THEN "TRUE"
    ELSE IF MemberValue(self) = "UNKNOWN" \/ MemberValue(other) = "UNKNOWN" THEN "UNKNOWN"
    ELSE "FALSE"

\* KPValue.__neg__
KPValue_neg(self) ==
    IF MemberValue(self) = "TRUE" THEN "FALSE"
    ELSE IF MemberValue(self) = "FALSE" THEN "TRUE"
    ELSE "UNKNOWN"

\* variant: a guard that is not FALSE lets the inner evaluable through
ValidationConstraint_evalNotFalse(eval_cond, inner) ==
    IF eval_cond # "FALSE" THEN inner ELSE "UNKNOWN"

\* ValidationConstraint.eval: eval_cond() is compared with the member TRUE
ValidationConstraint_eval(eval_cond, inner) ==
    IF eval_cond = "TRUE" THEN inner ELSE "UNKNOWN"

\* And.eval: the Python expression left and right
And_eval(left, right) == IF Truth(left) THEN right ELSE left

\* Or.eval: the Python expression left or right
Or_eval(left, right) == IF Truth(left) THEN left ELSE right

\* Not.eval returns what its evaluable returns
Not_eval(evaluable) == evaluable

Evaluate(name, v) ==
    /\ evaluated' = name
    /\ value' = v
    /\ UNCHANGED <<pc, clock, schedVars, init_mode, startVars, operands, dispatchVars, argVars,
                   aiVars, dataVars, envVars, hist>>

\* operands[1] & operands[2]
ApplyAnd ==
    /\ evaluated = "-"
    /\ Evaluate("and", KPValue_and(operands[1], operands[2]))

\* (operands[1] & operands[2]) & operands[3]
ApplyAndAgain ==
    /\ evaluated = "and"
    /\ Evaluate("and_and", KPValue_and(value, operands[3]))

\* operands[1] | operands[2]
ApplyOr ==
    /\ evaluated = "-"
    /\ Evaluate("or", KPValue_or(operands[1], operands[2]))

\* (operands[1] | operands[2]) | operands[3]
ApplyOrAgain ==
    /\ evaluated = "or"
    /\ Evaluate("or_or", KPValue_or(value, operands[3]))

\* -operands[1]
ApplyNeg ==
    /\ evaluated = "-"
    /\ Evaluate("neg", KPValue_neg(operands[1]))

\* -(-operands[1])
ApplyNegAgain ==
    /\ evaluated = "neg"
    /\ Evaluate("neg_neg", KPValue_neg(value))

\* a validation constraint whose guard yields operands[1] and whose inner
\* evaluable yields operands[2]
EvalValidationConstraint ==
    /\ evaluated = "-"
    /\ Evaluate("ValidationConstraint", ValidationConstraint_eval(operands[1], operands[2]))

\* And(left, right).eval() with children yielding operands[1] and operands[2]
EvalAnd ==
    /\ evaluated = "-"
    /\ Evaluate("And", And_eval(operands[1], operands[2]))

EvalOr ==
    /\ evaluated = "-"
    /\ Evaluate("Or", Or_eval(operands[1], operands[2]))

\* Not(evaluable).eval() with a child yielding operands[1]
EvalNot ==
    /\ evaluated = "-"
    /\ Evaluate("Not", Not_eval(operands[1]))

\* the subclasses of StateCondition
StateConditions == {"SCPosition", "SCArea", "SCLane", "SCSpeed", "SCDamage",
                    "SCDistance", "SCLight"}
\* the participant ids a criterion can name: the vehicles of the scenario and
\* one the scenario does not declare
ParticipantIds == VidSet \cup {"ghost"}

\* the constructors that raise ValueError for a negative tolerance, speed
\* limit or maximal distance; no constructor looks at the participant id
ConstructorRaises(kind, number) ==
    kind \in {"SCPosition", "SCSpeed", "SCDistance"} /\ number < 0

\* what eval yields; "error" is an exception. scenario.get_vehicle yields
\* None for an undeclared id. SCArea.eval returns what Polygon.contains
\* yields for a tuple: a Python bool ("True", "False"), or the exception of
\* a shapely that takes geometries only
EvalOutcomes(kind, participant) ==
    IF participant \in VidSet
    THEN CASE kind \in {"SCPosition", "SCSpeed"} -> {"TRUE", "FALSE"}
           [] kind = "SCArea" -> {"True", "False", "error"}
           [] kind \in {"SCLane", "SCDamage", "SCLight"} -> {"UNKNOWN"}
           [] kind = "SCDistance" -> {"error"}
    ELSE CASE kind \in {"SCPosition", "SCSpeed", "SCArea", "SCDistance"} -> {"error"}
           [] kind = "SCLane" -> {"UNKNOWN"}
           [] kind \in {"SCDamage", "SCLight"} -> {"error", "UNKNOWN"}

\* StateCondition.__init__ through the constructor of a subclass
BuildStateCondition(kind, participant, number) ==
    /\ criterion = NoCriterion
    /\ evaluated = "-"
    /\ ~ConstructorRaises(kind, number)
    /\ criterion' = [kind |-> kind, participant |-> participant]
    /\ UNCHANGED <<callers, counterVars, pc, clock, schedVars, init_mode, registryVars, portVars, link, launch, critVars, dispatchVars, argVars,
                   aiVars, dataVars, envVars, hist>>

\* eval of the constructed StateCondition
EvalStateCondition ==
    /\ criterion # NoCriterion
    /\ evaluated = "-"
    /\ evaluated' = criterion.kind
    /\ value' \in EvalOutcomes(criterion.kind, criterion.participant)
    /\ UNCHANGED <<pc, clock, schedVars, init_mode, startVars, operands, dispatchVars,
                   argVars, aiVars, dataVars, envVars, hist>>

InitCriteria ==
    /\ InitSession
    /\ bng = TRUE
    /\ launch = "ok"
    /\ pc = [t \in Threads |-> IF t \in {"rt", "cy", "sess2"} THEN "off" ELSE "idle"]
    /\ operands \in KPValue \X KPValue \X KPValue
    /\ evaluated = "-"
    /\ value = "-"

NextCriteria ==
    \/ ApplyAnd \/ ApplyAndAgain \/ ApplyOr \/ ApplyOrAgain \/ ApplyNeg \/ ApplyNegAgain
    \/ EvalValidationConstraint \/ EvalAnd \/ EvalOr \/ EvalNot
    \/ \E kind \in StateConditions, participant \in ParticipantIds, number \in {-1, 1} :
          BuildStateCondition(kind, participant, number)
    \/ EvalStateCondition

CriteriaSpec == InitCriteria /\ [][NextCriteria]_vars


\* ------------------------------------------------ the message handlers
\* the action tokens the three _handle_message functions compare with
SimNodeActions == {"generateSid"}
SimulationActions == {"vids", "pollSensors", "verify", "requestAiFor", "steps", "stop"}
MainAppActions == {"runTests", "status", "waitForSimulatorRequest", "control"}

\* a token whose bytes are no UTF-8 text, such as b"\xff"
Undecodable == "0xff"
\* the tokens the clients send besides the ones modelled by their own actions
ActionTokens == {"generateSid", "isRunning", Undecodable}

\* action.decode() raises UnicodeDecodeError
DecodeRaises(action) == action = Undecodable
DecodeError == "UnicodeDecodeError"

\* the message of the else branch of a _handle_message
UnknownActionMessage(action) == "The action \"" \o action \o "\" is unknown."

\* the else branch: the message is built first, then written to a Void
UnknownAction(t, action) ==
    /\ reply' = [handler |-> t, action |-> action,
                 payload |-> IF DecodeRaises(action) THEN DecodeError
                             ELSE UnknownActionMessage(action)]
    /\ IF DecodeRaises(action) THEN AfterRaise(t, "idle") ELSE pc' = pc

\* _handle_sim_node_message: generateSid yields a SimulationID of no
\* Simulation of _all_tasks
HandleSimNodeMessage(action) ==
    /\ pc["node"] = "idle"
    /\ IF action \in SimNodeActions
       THEN /\ \E sid \in SimulationIDs \ all_tasks :
                 reply' = [handler |-> "node", action |-> action, payload |-> sid]
            /\ pc' = pc
       ELSE UnknownAction("node", action)
    /\ UNCHANGED <<clock, schedVars, init_mode, startVars, critVars, all_tasks, status_sid, argVars,
                   aiVars, dataVars, envVars, hist>>

\* _handle_simulation_message with an action that matches none of its branches
SessionUnknownAction(action) ==
    /\ pc["sess"] = "idle"
    /\ action \notin SimulationActions
    /\ UnknownAction("sess", action)
    /\ UNCHANGED <<clock, schedVars, init_mode, startVars, critVars, all_tasks, status_sid, argVars,
                   aiVars, dataVars, envVars, hist>>

\* _handle_main_app_message with an action that matches none of its branches
MainUnknownAction(action) ==
    /\ pc["main"] = "idle"
    /\ action \notin MainAppActions
    /\ UnknownAction("main", action)
    /\ UNCHANGED <<clock, schedVars, init_mode, startVars, critVars, all_tasks, status_sid, argVars,
                   aiVars, dataVars, envVars, hist>>

\* _get_simulation(sid) is not None
GetSimulation(sid) == sid \in all_tasks

\* the main app forwards status for sid
StartStatus(sid) ==
    /\ pc["main"] = "idle"
    /\ status_sid' = sid
    /\ Goto("main", "st_sim")
    /\ UNCHANGED <<clock, schedVars, init_mode, startVars, critVars, all_tasks, reply, argVars,
                   aiVars, dataVars, envVars, hist>>

\* _status returns its SimStateResponse
StatusReturn(state) ==
    /\ reply' = [handler |-> "main", action |-> "status", payload |-> state]
    /\ hist' = [hist EXCEPT !.unset_seen = FALSE]
    /\ Goto("main", "idle")

StatusLookup ==
    /\ pc["main"] = "st_sim"
    /\ IF GetSimulation(status_sid)
       THEN /\ Goto("main", "st_bng")
            /\ hist' = [hist EXCEPT !.unset_seen = task_state \in Unset]
            /\ reply' = reply
       ELSE StatusReturn("UNKNOWN")
    /\ UNCHANGED <<clock, schedVars, init_mode, startVars, critVars, all_tasks, status_sid, argVars,
                   aiVars, dataVars, envVars>>

StatusHandle ==
    /\ pc["main"] = "st_bng"
    /\ IF bng
       THEN StatusReturn("RUNNING")
       ELSE Goto("main", "st_succeeded") /\ UNCHANGED <<reply, hist>>
    /\ UNCHANGED <<clock, schedVars, init_mode, startVars, critVars, all_tasks, status_sid, argVars,
                   aiVars, dataVars, envVars>>

StatusIsSucceeded ==
    /\ pc["main"] = "st_succeeded"
    /\ IF task_state = "SUCCEEDED"
       THEN StatusReturn("FINISHED")
       ELSE Goto("main", "st_failed") /\ UNCHANGED <<reply, hist>>
    /\ UNCHANGED <<clock, schedVars, init_mode, startVars, critVars, all_tasks, status_sid, argVars,
                   aiVars, dataVars, envVars>>

StatusIsFailed ==
    /\ pc["main"] = "st_failed"
    /\ IF task_state = "FAILED"
       THEN StatusReturn("FINISHED")
       ELSE Goto("main", "st_skipped") /\ UNCHANGED <<reply, hist>>
    /\ UNCHANGED <<clock, schedVars, init_mode, startVars, critVars, all_tasks, status_sid, argVars,
                   aiVars, dataVars, envVars>>

StatusIsSkipped ==
    /\ pc["main"] = "st_skipped"
    /\ IF task_state = "SKIPPED" THEN StatusReturn("CANCELED") ELSE StatusReturn("ERRORED")
    /\ UNCHANGED <<clock, schedVars, init_mode, startVars, critVars, all_tasks, status_sid, argVars,
                   aiVars, dataVars, envVars>>

\* the scheduler of the session sends stop with its TestResult, once
Stop(r) ==
    /\ pc["sess"] = "idle"
    /\ hist.stops_sent = 0
    /\ hist' = [Sent("stop") EXCEPT !.stops_sent = @ + 1, !.stop_result = r]
    /\ cmd' = [cmd EXCEPT !["sess"] = r]
    /\ Goto("sess", "cs_set")
    /\ UNCHANGED <<clock, schedVars, init_mode, startVars, critVars, dispatchVars, req_vid, wait_vid,
                   aiVars, dataVars, envVars>>

\* the stop branch returns its Void, or _control_sim has raised
StopReturn ==
    /\ \/ pc["sess"] = "cs_ret" /\ Goto("sess", "idle")
       \/ pc["sess"] = "cs_raised" /\ AfterRaise("sess", "idle")
    /\ cmd' = [cmd EXCEPT !["sess"] = "-"]
    /\ UNCHANGED <<clock, schedVars, init_mode, startVars, critVars, dispatchVars, req_vid, wait_vid,
                   aiVars, dataVars, envVars, hist>>

\* a registered session whose simulator is up; the scenario does not matter
\* to the handlers
InitDispatch ==
    /\ InitCommon
    /\ init_mode["v1"] = "AUTONOMOUS"
    /\ pc = [t \in Threads |-> IF t \in {"rt", "cy", "sess2"} THEN "off" ELSE "idle"]

\* the three handlers with the requests of the AI handshake around them
NextDispatch ==
    \/ \E action \in ActionTokens :
          \/ HandleSimNodeMessage(action)
          \/ SessionUnknownAction(action)
          \/ MainUnknownAction(action)
    \/ \E v \in VidSet : StartWait(v)
    \/ WaitCheck \/ WaitCreate \/ WaitWrite \/ WaitWoken \/ WaitRespond
    \/ \E v \in VidSet : RequestAiFor("sess", v)
    \/ GrantObserved("sess") \/ GrantWrite("sess") \/ GrantConsumed("sess")
    \/ GrantReturn("sess")

DispatchSpec == InitDispatch /\ [][NextDispatch]_vars

\* a registered session; its simulator is up, or failed to start and left
\* the scenario without a handle
InitStatus ==
    /\ InitSession
    /\ InitNoCriteria
    /\ init_mode["v1"] = "AUTONOMOUS"
    /\ bng \in BOOLEAN
    /\ launch = IF bng THEN "ok" ELSE "OSError"
    /\ pc = [t \in Threads |-> IF t \in {"rt", "cy", "sess2"} THEN "off" ELSE "idle"]

StatusHandler ==
    \/ StatusLookup \/ StatusHandle \/ StatusIsSucceeded \/ StatusIsFailed
    \/ StatusIsSkipped

\* the main-app handler with status, and the session's handler serving the
\* stop and the requestAiFor requests of the scheduler
NextStatus ==
    \/ \E sid \in SimulationIDs : StartStatus(sid)
    \/ StatusHandler
    \/ Requests
    \/ MainHandler
    \/ \E r \in TestResult : Stop(r)
    \/ StopReturn
    \/ \E v \in VidSet : RequestAiFor("sess", v)
    \/ GrantReturn("sess")
    \/ SessionHandler

StatusSpec == InitStatus /\ [][NextStatus]_vars


\* ------------------------------------------------- the session registry
\* variant: every candidate is accepted
SidAcceptedUnchecked(sid) == TRUE

\* _generate_sid accepts a candidate that no Simulation of _all_tasks holds
SidAccepted(sid) == ~GetSimulation(sid)

\* the Simulations run_test_case has not created yet
UnusedSims == {i \in SimIds : sims[i].phase = "none"}

\* the Simulation run_test_case creates next
NextSim == CHOOSE i \in UnusedSims : \A j \in UnusedSims : i <= j

\* a Simulation whose scheduler was started and has not ended
Live(i) == sims[i].phase = "started"

\* the runTests branch of _handle_main_app_message enters _run_tests, which
\* calls run_tests with a suite of n test cases
StartRunTests(n) ==
    /\ pc["main"] = "idle"
    /\ n \in 1..Cardinality(UnusedSims)
    /\ batch' = [todo |-> n, new_tasks |-> <<>>, sid |-> "-", redrawn |-> FALSE]
    /\ Goto("main", "rt_next")
    /\ UNCHANGED <<callers, counterVars, clock, schedVars, init_mode, criterion, sims, portVars, link, launch,
                   critVars, dispatchVars, argVars, aiVars, dataVars, envVars, hist>>

\* run_tests: one run_test_case per test case, which first requests generateSid
\* from the sim node; then the new tasks are handed to _run_tests
RunTestsNext ==
    /\ pc["main"] = "rt_next"
    /\ IF batch.todo > 0
       THEN /\ pc["node"] = "idle"
            /\ pc' = [pc EXCEPT !["main"] = "rt_gen", !["node"] = "gs_draw"]
            /\ batch' = [batch EXCEPT !.redrawn = FALSE]
       ELSE /\ Goto("main", "rt_reg")
            /\ batch' = batch
    /\ UNCHANGED <<callers, counterVars, clock, schedVars, init_mode, criterion, sims, portVars, link, launch,
                   critVars, dispatchVars, argVars, aiVars, dataVars, envVars, hist>>

\* _generate_sid: sid = prefix + "_sim_" + str(randint(0, 10000))
GenerateSidDraw(sid) ==
    /\ pc["node"] = "gs_draw"
    /\ batch' = [batch EXCEPT !.sid = sid]
    /\ Goto("node", "gs_check")
    /\ UNCHANGED <<callers, counterVars, clock, schedVars, init_mode, criterion, sims, portVars, link, launch,
                   critVars, dispatchVars, argVars, aiVars, dataVars, envVars, hist>>

\* _generate_sid: the loop ends when _get_simulation finds no Simulation, and
\* the response reaches run_test_case
GenerateSidCheck ==
    /\ pc["node"] = "gs_check"
    /\ IF SidAccepted(batch.sid)
       THEN /\ pc' = [pc EXCEPT !["node"] = "idle", !["main"] = "rt_sim"]
            /\ batch' = batch
       ELSE /\ Goto("node", "gs_draw")
            /\ batch' = [batch EXCEPT !.redrawn = TRUE]
    /\ UNCHANGED <<callers, counterVars, clock, schedVars, init_mode, criterion, sims, portVars, link, launch,
                   critVars, dispatchVars, argVars, aiVars, dataVars, envVars, hist>>

\* run_test_case: Simulation(sid, ...) and _start_simulation, which starts the
\* scheduler of the Simulation; the task joins the new tasks of the suite
RunTestCase ==
    /\ pc["main"] = "rt_sim"
    /\ sims' = [sims EXCEPT ![NextSim] =
                  [sid |-> batch.sid, phase |-> "started", registered |-> FALSE,
                   server |-> FALSE]]
    /\ batch' = [batch EXCEPT !.todo = @ - 1, !.new_tasks = Append(@, NextSim)]
    /\ Goto("main", "rt_next")
    /\ UNCHANGED <<callers, counterVars, clock, schedVars, init_mode, criterion, portVars, link, launch,
                   critVars, dispatchVars, argVars, aiVars, dataVars, envVars, hist>>

\* the for loop of _run_tests: a Simulation of _all_tasks with the same
\* SimulationID is popped, the server of the new one is started and the new
\* one is stored; after the last one the SimulationIDs are returned
RegisterTask ==
    /\ pc["main"] = "rt_reg"
    /\ IF batch.new_tasks # <<>>
       THEN LET sim == Head(batch.new_tasks)
            IN  /\ sims' = [i \in SimIds |->
                              IF i = sim
                              THEN [sims[i] EXCEPT !.registered = TRUE, !.server = TRUE]
                              ELSE IF sims[i].registered /\ sims[i].sid = sims[sim].sid
                              THEN [sims[i] EXCEPT !.registered = FALSE]
                              ELSE sims[i]]
                /\ all_tasks' = all_tasks \cup {sims[sim].sid}
                /\ batch' = [batch EXCEPT !.new_tasks = Tail(@)]
                /\ pc' = pc
       ELSE /\ Goto("main", "idle")
            /\ UNCHANGED <<callers, counterVars, sims, all_tasks, batch>>
    /\ UNCHANGED <<callers, counterVars, clock, schedVars, init_mode, criterion, portVars, link, launch,
                   critVars, status_sid, reply, argVars, aiVars, dataVars, envVars, hist>>

\* the scheduler of a Simulation ends with its stop; the requests of the
\* scheduler need the server, and _control_sim leaves _all_tasks as it is
FinishSession(i) ==
    /\ Live(i)
    /\ sims[i].server
    /\ sims' = [sims EXCEPT ![i].phase = "finalized"]
    /\ UNCHANGED <<callers, counterVars, pc, clock, schedVars, init_mode, criterion, batch, portVars, link,
                   launch, critVars, dispatchVars, argVars, aiVars, dataVars, envVars, hist>>

InitRegistry ==
    /\ InitCommon
    /\ init_mode["v1"] = "AUTONOMOUS"
    /\ pc = [t \in Threads |-> IF t \in {"rt", "cy", "sess2"} THEN "off" ELSE "idle"]

NextRegistry ==
    \/ \E n \in 1..MaxSims : StartRunTests(n)
    \/ RunTestsNext
    \/ \E sid \in SidCandidates : GenerateSidDraw(sid)
    \/ GenerateSidCheck
    \/ RunTestCase
    \/ RegisterTask
    \/ \E i \in SimIds : FinishSession(i)

RegistrySpec == InitRegistry /\ [][NextRegistry]_vars


\* ------------------------------------------------- _start_simulation
\* variant: acquire never waits
LockFreeAlways == TRUE

\* lock.acquire() returns when no startup holds the lock
LockFree == lock = 0

\* _is_port_available: connect_ex fails when nothing listens on the port
IsPortAvailable(port) == port \notin listening

\* a startup is between lock.acquire() and lock.release()
InSection(s) == starting[s].pc \in {"probe", "launch", "release"}

\* the simulator of a startup listens on its port: it was launched (also by
\* a try block that failed later) and is not closed
SimulatorUp(s) == starting[s].bound /\ starting[s].pc \in {"release", "started"}

\* lock.acquire()
StartAcquire(s) ==
    /\ starting[s].pc = "idle"
    /\ LockFree
    /\ lock' = s
    /\ starting' = [starting EXCEPT ![s].pc = "probe"]
    /\ UNCHANGED <<callers, counterVars, pc, clock, schedVars, init_mode, criterion, registryVars, static_port,
                   listening, link, launch, critVars, dispatchVars, argVars, aiVars,
                   dataVars, envVars, hist>>

\* the while loop on the static port; DBBeamNGpy is created with the port
\* the loop ends with
StartProbe(s) ==
    /\ starting[s].pc = "probe"
    /\ IF ~IsPortAvailable(static_port)
       THEN /\ static_port' = static_port + PortStep
            /\ starting' = starting
       ELSE /\ static_port' = static_port
            /\ starting' = [starting EXCEPT ![s].pc = "launch", ![s].port = static_port]
    /\ UNCHANGED <<callers, counterVars, pc, clock, schedVars, init_mode, criterion, registryVars, lock,
                   listening, link, launch, critVars, dispatchVars, argVars, aiVars,
                   dataVars, envVars, hist>>

\* the try block: open(launch=True) listens on the port and starts the
\* simulator; a failed start has bound the port or has not
StartLaunch(s, outcome, bound) ==
    /\ starting[s].pc = "launch"
    /\ outcome = "ok" => bound
    /\ listening' = IF bound THEN listening \cup {starting[s].port} ELSE listening
    /\ starting' = [starting EXCEPT ![s].pc = "release", ![s].outcome = outcome,
                                     ![s].bound = bound]
    /\ UNCHANGED <<callers, counterVars, pc, clock, schedVars, init_mode, criterion, registryVars, lock,
                   static_port, link, launch, critVars, dispatchVars, argVars, aiVars,
                   dataVars, envVars, hist>>

\* scenario generation, the manual changes of the prefab or the try block
\* raise an exception that no except clause of _start_simulation names: the
\* call is left at once, past lock.release()
StartRaises(s, bound) ==
    /\ starting[s].pc = "launch"
    /\ listening' = IF bound THEN listening \cup {starting[s].port} ELSE listening
    /\ starting' = [starting EXCEPT ![s].pc = "raised", ![s].outcome = "raised",
                                     ![s].bound = bound]
    /\ UNCHANGED <<callers, counterVars, pc, clock, schedVars, init_mode, criterion, registryVars, lock,
                   static_port, link, launch, critVars, dispatchVars, argVars, aiVars,
                   dataVars, envVars, hist>>

\* lock.release(); the scheduler thread is started after it
StartRelease(s) ==
    /\ starting[s].pc = "release"
    /\ lock' = 0
    /\ starting' = [starting EXCEPT ![s].pc = "started"]
    /\ UNCHANGED <<callers, counterVars, pc, clock, schedVars, init_mode, criterion, registryVars, static_port,
                   listening, link, launch, critVars, dispatchVars, argVars, aiVars,
                   dataVars, envVars, hist>>

\* data.scenario.bng.close() of _control_sim ends the simulator of a session
SimulatorClose(s) ==
    /\ starting[s].pc = "started"
    /\ starting[s].bound
    /\ listening' = listening \ {starting[s].port}
    /\ starting' = [starting EXCEPT ![s].pc = "closed"]
    /\ UNCHANGED <<callers, counterVars, pc, clock, schedVars, init_mode, criterion, registryVars, lock,
                   static_port, link, launch, critVars, dispatchVars, argVars, aiVars,
                   dataVars, envVars, hist>>

InitPort ==
    /\ InitCommon
    /\ init_mode["v1"] = "AUTONOMOUS"
    /\ pc = [t \in Threads |-> IF t \in {"rt", "cy", "sess2"} THEN "off" ELSE "idle"]

NextPort ==
    \E s \in Starters :
        \/ StartAcquire(s)
        \/ StartProbe(s)
        \/ \E outcome \in LaunchOutcomes, bound \in BOOLEAN : StartLaunch(s, outcome, bound)
        \/ \E bound \in BOOLEAN : StartRaises(s, bound)
        \/ StartRelease(s)
        \/ SimulatorClose(s)

PortSpec == InitPort /\ [][NextPort]_vars


\* ------------------------------------------- send_message_to_sim_node
\* the requests of the scheduler that go through send_message_to_sim_node
SchedulerRequests == {"vids", "isRunning", "stop"}

\* variant: the refused connection is raised to the caller
AfterRefusedRaise == "raised"

\* the except branch: the refused connection is logged and slept on
AfterRefused == "sleep"

LinkUnchanged ==
    UNCHANGED <<callers, counterVars, pc, clock, schedVars, init_mode, criterion, registryVars, portVars,
                launch, critVars, dispatchVars, argVars, aiVars, dataVars, envVars, hist>>

\* a call of send_message_to_sim_node(action, data)
SendMessageToSimNode(action) ==
    /\ link.pc = "idle"
    /\ link.sent < MaxRequests
    /\ link' = [link EXCEPT !.pc = "loop", !.action = action]
    /\ LinkUnchanged

\* while not self._sim_node_client_socket
ConnectLoop ==
    /\ link.pc = "loop"
    /\ link' = [link EXCEPT !.pc = IF ~link.socket THEN "create" ELSE "send"]
    /\ LinkUnchanged

\* create_client("localhost", self.port): refused while no server listens
CreateClient ==
    /\ link.pc = "create"
    /\ IF link.server
       THEN link' = [link EXCEPT !.socket = TRUE, !.pc = "loop",
                                 !.connects = IF @ < 2 THEN @ + 1 ELSE @]
       ELSE link' = [link EXCEPT !.pc = AfterRefused,
                                 !.refused = IF @ < MaxRefused THEN @ + 1 ELSE @]
    /\ LinkUnchanged

\* sleep(retry_delay)
RetrySleep ==
    /\ link.pc = "sleep"
    /\ link' = [link EXCEPT !.pc = "loop", !.slept = RetryDelay]
    /\ LinkUnchanged

\* send_request on the socket, and the return of its result
SendRequest ==
    /\ link.pc = "send"
    /\ link' = [link EXCEPT !.pc = "idle", !.sent = @ + 1]
    /\ LinkUnchanged

\* variant: start_server does not look at the socket it has
ServerSocketSetNever == FALSE

\* if self._sim_server_socket
ServerSocketSet == link.server_socket # 0

\* start_server of the Simulation, called by _run_tests after the scheduler
\* of the Simulation was started: ValueError when the Simulation has a server
\* socket, else the socket (named by the call that creates it) and the
\* thread that accepts on it
StartServer ==
    /\ link.start_calls < MaxStartCalls
    /\ IF ServerSocketSet
       THEN link' = [link EXCEPT !.start_calls = @ + 1, !.value_errors = @ + 1]
       ELSE link' = [link EXCEPT !.start_calls = @ + 1, !.server = TRUE,
                                 !.server_socket = link.start_calls + 1,
                                 !.accept_threads = @ + 1]
    /\ LinkUnchanged

InitConnect ==
    /\ InitCommon
    /\ init_mode["v1"] = "AUTONOMOUS"
    /\ pc = [t \in Threads |-> IF t \in {"rt", "cy", "sess2"} THEN "off" ELSE "idle"]

NextConnect ==
    \/ \E action \in SchedulerRequests : SendMessageToSimNode(action)
    \/ ConnectLoop \/ CreateClient \/ RetrySleep \/ SendRequest \/ StartServer

ConnectSpec == InitConnect /\ [][NextConnect]_vars


\* ------------------------------------- a failed launch of the simulator
\* scenario.bng after the try block: load_scenario sets it, so a try block
\* that failed has left it unset or set
HandleAfter(outcome) == IF outcome = "ok" THEN {TRUE} ELSE BOOLEAN

\* the requests of a verification cycle
CycleRequests == {"pollSensors", "verify", "requestAiFor", "steps"}

\* _start_simulation from the try block on: both except branches log, and
\* the scheduler thread is started after each of the three ways out
StartSimulation(outcome, handle) ==
    /\ pc["rt"] = "off"
    /\ launch = "-"
    /\ handle \in HandleAfter(outcome)
    /\ launch' = outcome
    /\ bng' = handle
    /\ Goto("rt", "vids")
    /\ UNCHANGED <<callers, counterVars, clock, schedVars, init_mode, criterion, registryVars, portVars, link,
                   critVars, dispatchVars, argVars, aiVars, task_state, stored,
                   user_path, envVars, hist>>

InitLaunch ==
    /\ InitSession
    /\ InitNoCriteria
    /\ init_mode["v1"] = "AUTONOMOUS"
    /\ bng = FALSE
    /\ launch = "-"
    /\ pc = [t \in Threads |-> IF t \in {"rt", "cy", "sess2"} THEN "off" ELSE "idle"]

\* the session from its launch on, with the wait calls of the AI clients
NextLaunch ==
    \/ \E outcome \in LaunchOutcomes, handle \in BOOLEAN : StartSimulation(outcome, handle)
    \/ Tick \/ RuntimeThread \/ CyclesThread \/ SessionHandler
    \/ \E v \in VidSet : StartWait(v)
    \/ WaitCheck \/ WaitCreate \/ WaitWrite \/ WaitWoken \/ WaitRespond
    \/ WaitIsSucceeded \/ WaitIsFailed \/ WaitIsSkipped

LaunchSpec == InitLaunch /\ [][NextLaunch]_vars


\* --------------------------------------- concurrent wait calls
\* The registration of _wait_for_simulator_request, served by several handler
\* threads side by side.
CallerUnchanged ==
    UNCHANGED <<pc, clock, schedVars, init_mode, criterion, registryVars, portVars, link,
                launch, counterVars, critVars, dispatchVars, argVars, dataVars, envVars,
                hist>>

\* a handler thread enters _wait_for_simulator_request(sid, vid)
CallWait(c, v) ==
    /\ callers[c].pc = "idle"
    /\ callers' = [callers EXCEPT ![c] = [pc |-> "check", vid |-> v]]
    /\ UNCHANGED aiVars
    /\ CallerUnchanged

\* if sid.sid not in _registered_ais
CallCheck(c) ==
    /\ callers[c].pc = "check"
    /\ callers' = [callers EXCEPT ![c].pc = IF ~registered_sid THEN "create" ELSE "write"]
    /\ UNCHANGED aiVars
    /\ CallerUnchanged

\* _registered_ais[sid.sid] = {}
CallCreate(c) ==
    /\ callers[c].pc = "create"
    /\ registered_sid' = TRUE
    /\ registered_ais' = [v \in VidSet |-> Absent]
    /\ callers' = [callers EXCEPT ![c].pc = "write"]
    /\ CallerUnchanged

\* _registered_ais[sid.sid][vid.vid] = AIStatus.WAITING; the polling loop follows
CallWrite(c) ==
    /\ callers[c].pc = "write"
    /\ registered_ais' = [registered_ais EXCEPT ![callers[c].vid] = "WAITING"]
    /\ callers' = [callers EXCEPT ![c].pc = "poll"]
    /\ UNCHANGED registered_sid
    /\ CallerUnchanged

InitCallers ==
    /\ InitCommon
    /\ pc = [t \in Threads |-> IF t \in {"rt", "cy", "sess2"} THEN "off" ELSE "idle"]

NextCallers ==
    \E c \in Callers :
        \/ \E v \in VidSet : CallWait(c, v)
        \/ CallCheck(c) \/ CallCreate(c) \/ CallWrite(c)

CallersSpec == InitCallers /\ [][NextCallers]_vars


\* --------------------------------------- concurrent calls of run_test_case
CounterUnchanged ==
    UNCHANGED <<pc, clock, schedVars, init_mode, criterion, registryVars, portVars, link,
                launch, callers, critVars, dispatchVars, argVars, aiVars, dataVars,
                envVars, hist>>

\* run_test_case is entered and has its sid from generateSid
RunCall(r) ==
    /\ runs[r].pc = "idle"
    /\ runs' = [runs EXCEPT ![r].pc = "create"]
    /\ UNCHANGED counter
    /\ CounterUnchanged

\* sim = Simulation(sid, ..., FIRST_SIM_PORT + run_test_case.counter)
RunCreate(r) ==
    /\ runs[r].pc = "create"
    /\ runs' = [runs EXCEPT ![r].pc = "load", ![r].port = FIRST_SIM_PORT + counter]
    /\ UNCHANGED counter
    /\ CounterUnchanged

\* run_test_case.counter += 1 reads the attribute ...
RunLoad(r) ==
    /\ runs[r].pc = "load"
    /\ runs' = [runs EXCEPT ![r].pc = "store", ![r].loaded = counter]
    /\ UNCHANGED counter
    /\ CounterUnchanged

\* ... and stores the sum; _start_simulation follows
RunStore(r) ==
    /\ runs[r].pc = "store"
    /\ counter' = runs[r].loaded + 1
    /\ runs' = [runs EXCEPT ![r].pc = "done"]
    /\ CounterUnchanged

InitCounter ==
    /\ InitCommon
    /\ pc = [t \in Threads |-> "off"]

NextCounter ==
    \E r \in Runners : RunCall(r) \/ RunCreate(r) \/ RunLoad(r) \/ RunStore(r)

CounterSpec == InitCounter /\ [][NextCounter]_vars


\* ------------------------------------------- sessions longer than a day
\* (datetime.now() - test_start_time).seconds is the seconds field of the
\* timedelta, which lies in 0..86399: when a day of the session is over the
\* field starts again at 0. join(TIMEOUT) has returned long before.
TickMidnight ==
    /\ pc["rt"] = "get"
    /\ clock = TIMEOUT
    /\ clock' = 0
    /\ UNCHANGED <<pc, schedVars, init_mode, startVars, critVars, dispatchVars, argVars,
                   aiVars, dataVars, envVars, hist>>

\* the scheduler of a session with the wait calls of the AI clients, for as
\* long as the session runs
\* the runtime thread of a session whose simulator nobody closes: every
\* request it sends is answered
RuntimeThreadAnswered ==
    \/ RtVids \/ RtStartCycles \/ RtJoin \/ RtGet \/ RtStop
    \/ RtStopResponse

NextLongRun ==
    \/ Tick \/ TickMidnight
    \/ RuntimeThreadAnswered \/ CyclesThread \/ SessionHandler
    \/ \E v \in VidSet : StartWait(v)
    \/ WaitCheck \/ WaitCreate \/ WaitWrite \/ WaitWoken \/ WaitRespond
    \/ WaitIsSucceeded \/ WaitIsFailed \/ WaitIsSkipped

LongRunSpec == Init /\ [][NextLongRun]_vars

\* time advances and every thread that can take a step eventually takes one
FairLongRunSpec ==
    /\ LongRunSpec
    /\ WF_vars(Tick)
    /\ WF_vars(TickMidnight)
    /\ WF_vars(RuntimeThreadAnswered)
    /\ WF_vars(CyclesThread)
    /\ WF_vars(SessionHandler)
    /\ WF_vars(WaitCheck \/ WaitCreate \/ WaitWrite \/ WaitWoken \/ WaitRespond
                  \/ WaitIsSucceeded \/ WaitIsFailed \/ WaitIsSkipped)


\* ================================================================ claims
WaitPcs == {"w_check", "w_create", "w_write", "w_poll", "w_resp",
            "w_succeeded", "w_failed", "w_skipped"}
\* a wait call that has not left its polling loop
WaitBlockedPcs == {"w_check", "w_create", "w_write", "w_poll"}

\* C1: the if/elif chain of a cycle maps the verification triple by strict
\* priority: precondition FALSE gives SKIPPED, else failure TRUE gives FAILED,
\* else success TRUE gives SUCCEEDED, else the result stays UNKNOWN and the
\* cycle goes on with _request_control_avs; in every cycle, the first included.
VerdictByPriority ==
    [][ (pc["cy"] = "map" /\ pc'["cy"] # "map") =>
          LET p == verification.precondition
              f == verification.failure
              s == verification.success
          IN  /\ test_case_result = "UNKNOWN"
              /\ (p = "FALSE" => test_case_result' = "SKIPPED")
              /\ (p # "FALSE" /\ f = "TRUE" => test_case_result' = "FAILED")
              /\ (p # "FALSE" /\ f # "TRUE" /\ s = "TRUE"
                    => test_case_result' = "SUCCEEDED")
              /\ (p # "FALSE" /\ f # "TRUE" /\ s # "TRUE"
                    => test_case_result' = "UNKNOWN" /\ pc'["cy"] = "avs")
              /\ (test_case_result' # "UNKNOWN" => pc'["cy"] = "loop") ]_vars

\* the first cycle decided FAILED
FirstCycleFailed ==
    pc["cy"] = "loop" /\ hist.cycles = 1 /\ test_case_result = "FAILED"

TestResultSetOnce ==
    [][ /\ hist'.set_count <= 1
        /\ (task_state \notin {NoState, "UNKNOWN"} => task_state' = task_state) ]_vars

\* C4: when every verification of the session gave three UNKNOWNs, the
\* result sent with stop is UNKNOWN.
UnknownAtTimeout ==
    (hist.stops_sent = 1 /\ hist.all_unknown) => hist.stop_result = "UNKNOWN"

\* stop was sent after the timeout ended a run of undecided cycles
StoppedByTimeout ==
    /\ hist.stops_sent = 1
    /\ hist.all_unknown
    /\ hist.cycles >= 1
    /\ clock >= TIMEOUT
    /\ controls = 0
    /\ hist.stop_result = "UNKNOWN"

\* C5: once the timeout has elapsed, stop is sent even while the requestAiFor
\* request of the cycle is still waiting for an AI client, without any wait
\* call or control request arriving.
StopSentDespiteHandshake ==
    (pc["cy"] = "ai_resp" /\ clock >= TIMEOUT)
        ~> (hist.stops_sent >= 1 \/ registered_sid \/ pc["main"] # "idle" \/ controls > 0)

\* C6: an AIStatus entry changes only absent -> WAITING, WAITING -> REQUESTED
\* and REQUESTED -> WAITING; REQUESTED is written to an existing entry that is
\* WAITING; READY is never assigned.
AIStatusLifecycle ==
    [][ /\ \A v \in VidSet :
             /\ registered_ais'[v] # "READY"
             /\ registered_ais'[v] # registered_ais[v] =>
                   \/ registered_ais[v] = Absent /\ registered_ais'[v] = "WAITING"
                   \/ registered_ais[v] = "WAITING" /\ registered_ais'[v] = "REQUESTED"
                   \/ registered_ais[v] = "REQUESTED" /\ registered_ais'[v] = "WAITING"
        /\ \A t \in GrantThreads :
             (pc[t] = "g_write" /\ pc'[t] # "g_write") =>
                 /\ registered_sid
                 /\ registered_ais[req_vid[t]] = "WAITING"
                 /\ registered_ais'[req_vid[t]] = "REQUESTED" ]_vars

\* a wait call, a grant and a second wait call have acted on an entry
WaitGrantWait ==
    \E v \in VidSet :
        /\ waits_written[v] = 2
        /\ hist.grants_written[v] = 1
        /\ registered_ais[v] = "WAITING"

\* C7: the grants written for a pair never outnumber the wait calls that
\* wrote WAITING for it, also when two grant calls run concurrently.
SingleGrantPerWait ==
    \A v \in VidSet : hist.grants_written[v] <= waits_written[v]

\* C8: _request_control_avs sends requestAiFor for a vehicle exactly when
\* its mode (the mode file if there is one, else the initial mode) is
\* AUTONOMOUS, TRAINING or _BEAMNG; otherwise it goes on to the next vehicle.
AiRequestedIffExternallyDriven ==
    [][ (pc["cy"] = "avs_mode" /\ pc'["cy"] # "avs_mode") =>
          LET v == Vids[vidx]
              m == IF hist.mode_file # NoFile THEN hist.mode_file ELSE init_mode[v]
              sent == /\ pc'["cy"] = "ai_resp"
                      /\ pc'["sess"] = "g_wait"
                      /\ req_vid'["sess"] = v
                      /\ hist'.last_sent = "requestAiFor"
              skipped == /\ pc'["cy"] = "avs"
                         /\ vidx' = vidx + 1
                         /\ pc'["sess"] = pc["sess"]
                         /\ hist'.last_sent = hist.last_sent
          IN  /\ m \in {"AUTONOMOUS", "TRAINING", "_BEAMNG"} => sent
              /\ m \notin {"AUTONOMOUS", "TRAINING", "_BEAMNG"} => skipped ]_vars

\* requestAiFor is out for a vehicle whose initial mode is MANUAL
AiRequestedByModeFile ==
    pc["cy"] = "ai_resp" /\ init_mode[req_vid["sess"]] = "MANUAL"

\* C9: a wait call writes WAITING first, stays in its loop while the
\* simulator runs and the entry is WAITING, and returns in a state where the
\* entry is not WAITING or the simulator is not running.
WaitReturnsOnlyWhenWoken ==
    [][ /\ (pc["main"] = "w_write" /\ pc'["main"] # "w_write")
              => registered_ais'[wait_vid] = "WAITING"
        /\ (pc["main"] = "w_poll" /\ bng /\ registered_ais[wait_vid] = "WAITING")
              => pc'["main"] = "w_poll"
        /\ (pc["main"] \in WaitPcs /\ pc'["main"] = "idle")
              => (registered_ais'[wait_vid] # "WAITING" \/ ~bng') ]_vars

\* a wait call returned RUNNING after its entry was granted
WaitWokenByGrant ==
    /\ pc["main"] = "idle"
    /\ hist.wait_ret = "RUNNING"
    /\ bng
    /\ registered_ais[wait_vid] = "REQUESTED"

\* C10: with the simulator stopped, a wait call that is in or before its
\* polling loop returns, and a wait call that returns reports a state other
\* than RUNNING.
WaitReturnsAfterStop ==
    /\ [][ (pc["main"] \in WaitPcs /\ pc'["main"] = "idle" /\ ~bng)
              => hist'.wait_ret \in {"FINISHED", "CANCELED", "ERRORED"} ]_vars
    /\ \A v \in VidSet :
         (~bng /\ pc["main"] \in WaitBlockedPcs /\ wait_vid = v)
            ~> (pc["main"] = "idle" /\ wait_vid = v /\ hist.wait_ret # "RUNNING"
                                    /\ hist.wait_ret # "-")

\* a wait call issued for a stopped simulator has returned
WaitReturnedStopped ==
    /\ ~bng
    /\ pc["main"] = "idle"
    /\ hist.wait_ret \in {"FINISHED", "CANCELED", "ERRORED"}

\* the truth tables of the three-valued logic the claims name
KleeneAnd(a, b) ==
    IF a = "FALSE" \/ b = "FALSE" THEN "FALSE"
    ELSE IF a = "UNKNOWN" \/ b = "UNKNOWN" THEN "UNKNOWN"
    ELSE "TRUE"
KleeneOr(a, b) ==
    IF a = "TRUE" \/ b = "TRUE" THEN "TRUE"
    ELSE IF a = "UNKNOWN" \/ b = "UNKNOWN" THEN "UNKNOWN"
    ELSE "FALSE"
KleeneNot(a) ==
    CASE a = "TRUE" -> "FALSE" [] a = "FALSE" -> "TRUE" [] a = "UNKNOWN" -> "UNKNOWN"

\* C11: for all 9 operand pairs, a & b is FALSE if either operand is FALSE,
\* otherwise UNKNOWN if either operand is UNKNOWN, otherwise TRUE.
AndIsKleeneAnd ==
    evaluated = "and" => value = KleeneAnd(operands[1], operands[2])

\* C12: for all 9 operand pairs, a | b is TRUE if either operand is TRUE,
\* otherwise UNKNOWN if either operand is UNKNOWN, otherwise FALSE.
OrIsKleeneOr ==
    evaluated = "or" => value = KleeneOr(operands[1], operands[2])

\* C13: -a is FALSE for TRUE, TRUE for FALSE and UNKNOWN for UNKNOWN, and
\* negating twice gives the operand back.
NegIsKleeneNot ==
    /\ evaluated = "neg" => value = KleeneNot(operands[1])
    /\ evaluated = "neg_neg" => value = operands[1]

\* C14: & and | are commutative and associative: x & y equals y & x and
\* (x & y) & z equals x & (y & z) for all operands, and likewise for |.
AndOrCommutativeAssociative ==
    /\ evaluated = "and" => value = KPValue_and(operands[2], operands[1])
    /\ evaluated = "and_and"
         => value = KPValue_and(operands[1], KPValue_and(operands[2], operands[3]))
    /\ evaluated = "or" => value = KPValue_or(operands[2], operands[1])
    /\ evaluated = "or_or"
         => value = KPValue_or(operands[1], KPValue_or(operands[2], operands[3]))

\* (x & y) & z has been computed for three different operands
NestedAndApplied ==
    /\ evaluated = "and_and"
    /\ operands = <<"FALSE", "UNKNOWN", "TRUE">>

\* C15: x & TRUE is x, x | FALSE is x, x & FALSE is FALSE and x | TRUE is
\* TRUE for every x.
IdentityAndAnnihilatorLaws ==
    /\ (evaluated = "and" /\ operands[2] = "TRUE") => value = operands[1]
    /\ (evaluated = "or" /\ operands[2] = "FALSE") => value = operands[1]
    /\ (evaluated = "and" /\ operands[2] = "FALSE") => value = "FALSE"
    /\ (evaluated = "or" /\ operands[2] = "TRUE") => value = "TRUE"

\* C16: a validation constraint yields the value of its inner evaluable when
\* its guard is TRUE and UNKNOWN when its guard is FALSE or UNKNOWN, whatever
\* the inner value is.
GuardedEvaluation ==
    evaluated = "ValidationConstraint" =>
        /\ operands[1] = "TRUE" => value = operands[2]
        /\ operands[1] \in {"FALSE", "UNKNOWN"} => value = "UNKNOWN"

\* a constraint whose guard is UNKNOWN and whose inner evaluable is TRUE has
\* been evaluated
UnknownGuardEvaluated ==
    /\ evaluated = "ValidationConstraint"
    /\ operands[1] = "UNKNOWN"
    /\ operands[2] = "TRUE"
    /\ value = "UNKNOWN"

\* C17: for all 9 pairs of child values, And(l, r).eval() is the Kleene AND of
\* the children's values and Or(l, r).eval() is their Kleene OR.
ConnectivesComposeByKleene ==
    /\ evaluated = "And" => value = KleeneAnd(operands[1], operands[2])
    /\ evaluated = "Or" => value = KleeneOr(operands[1], operands[2])

\* C18: Not(e).eval() is FALSE when e yields TRUE, TRUE when e yields FALSE
\* and UNKNOWN when e yields UNKNOWN.
NotNodeNegates ==
    evaluated = "Not" => value = KleeneNot(operands[1])

\* the handlers of the three channels and the actions each of them knows
Handlers == {"node", "sess", "main"}
Vocabulary(t) ==
    CASE t = "node" -> SimNodeActions
      [] t = "sess" -> SimulationActions
      [] t = "main" -> MainAppActions

\* C19: a handler given an action token outside its vocabulary writes one
\* response whose message names the token, raises no error and goes on
\* serving its connection, and leaves the session registry and the AIStatus
\* map as they are.
UnknownActionGetsErrorPayload ==
    [][ \A t \in Handlers :
          (reply' # reply /\ reply'.handler = t /\ reply'.action \notin Vocabulary(t))
             => /\ reply'.payload = "The action \"" \o reply'.action \o "\" is unknown."
                /\ pc'[t] = "idle"
                /\ all_tasks' = all_tasks
                /\ registered_sid' = registered_sid
                /\ registered_ais' = registered_ais ]_vars

StatusPcs == {"st_sim", "st_bng", "st_succeeded", "st_failed", "st_skipped"}
WaitResponsePcs == {"w_resp", "w_succeeded", "w_failed", "w_skipped"}

\* the run state the claim gives a SimulationID, at the moment of the response
\* or, for ERRORED, at a moment since the handler looked at the handle
ReportedAsClaimed(state, sid) ==
    IF sid \notin all_tasks
    THEN state = "UNKNOWN"
    ELSE \/ state = "RUNNING" /\ bng
         \/ state = "FINISHED" /\ ~bng /\ task_state \in {"SUCCEEDED", "FAILED"}
         \/ state = "CANCELED" /\ ~bng /\ task_state = "SKIPPED"
         \/ state = "ERRORED" /\ ~bng /\ (task_state \in Unset \/ hist.unset_seen)

\* C20: status reports RUNNING for a registered SimulationID whose simulator
\* handle is live, FINISHED when the handle is absent and the result is
\* SUCCEEDED or FAILED, CANCELED when it is absent and the result is SKIPPED,
\* ERRORED when it is absent and the result is unset or UNKNOWN, and UNKNOWN
\* for an unregistered SimulationID; the response of a wait call follows the
\* same mapping.
StatusReportsRunState ==
    [][ /\ (pc["main"] \in StatusPcs /\ pc'["main"] = "idle")
             => ReportedAsClaimed(reply'.payload, status_sid)
        /\ (pc["main"] \in WaitResponsePcs /\ pc'["main"] = "idle")
             => ReportedAsClaimed(hist'.wait_ret, SID) ]_vars

\* _control_sim has returned or raised for the stop of the scheduler
StopProcessed ==
    /\ hist.stops_sent = 1
    /\ pc["sess"] \notin {"cs_set", "cs_close", "cs_store", "cs_rmtree"}

\* C21: once the stop that carries the UNKNOWN of an expired timeout has been
\* processed, every status response for the session is ERRORED, never
\* FINISHED or CANCELED.
TimeoutReportedErrored ==
    [][ ( /\ pc["main"] \in StatusPcs
          /\ pc'["main"] = "idle"
          /\ status_sid = SID
          /\ hist.stop_result = "UNKNOWN"
          /\ StopProcessed )
        => reply'.payload = "ERRORED" ]_vars

\* C22: when _control_sim has run to its end for a session (its last
\* statement removes the working directory), _all_tasks holds no entry for
\* the SimulationID of the session.
RegistryPrunedOnCompletion ==
    ~user_path => ~GetSimulation(SID)

\* C23: when a session has been torn down, _registered_ais holds no entry for
\* the session or any of its vehicles.
AiEntriesEndWithSession ==
    ~user_path => (~registered_sid /\ \A v \in VidSet : registered_ais[v] = Absent)

\* C29: a criterion that names a participant the scenario does not declare is
\* rejected by its constructor: no such criterion is ever built, and so none
\* is evaluated to UNKNOWN or to an error.
ParticipantCheckedAtBuild ==
    criterion # NoCriterion => criterion.participant \in VidSet

\* the requests of the cycles thread that wait for their response
CyOutstanding == pc["cy"] = "ai_resp"

\* C28: at most one request is outstanding on the client connection of a
\* session: the vids request of the runtime thread is over before the cycles
\* thread starts, and the stop is sent only after the cycles thread has made
\* its last request, also when join(TIMEOUT) returned at the deadline.
RequestsNeverInterleaved ==
    /\ pc["rt"] \in {"vids", "start"} => pc["cy"] = "off"
    /\ pc["cy"] \notin {"off", "done"} => pc["rt"] \in {"join", "get"}
    /\ pc["rt"] \in {"stop", "stop_resp"} => pc["cy"] = "done"
    /\ ~(pc["rt"] = "stop_resp" /\ CyOutstanding)

\* join returned at the deadline while a request of the cycles thread waits
\* for its response; the runtime thread waits for the queue
JoinTimedOutDuringRequest ==
    /\ pc["rt"] = "get"
    /\ CyOutstanding
    /\ clock >= TIMEOUT
    /\ hist.stops_sent = 0

\* the Simulations of _all_tasks
Registered == {i \in SimIds : sims[i].registered}

\* C24: the SimulationID _generate_sid returns is the one of no session that
\* is registered when it returns; a candidate in use is drawn again.
GeneratedSidUnused ==
    pc["main"] = "rt_sim" =>
        /\ \A i \in Registered : sims[i].sid # batch.sid
        /\ batch.sid \in SidCandidates

\* a SimulationID was returned after a candidate in use had been drawn
SidRedrawnThenReturned ==
    /\ pc["main"] = "rt_sim"
    /\ batch.redrawn
    /\ Cardinality(Registered) >= 2

\* C25: no two sessions that are started and not finalized hold the same
\* SimulationID, and the registration of a session removes no live session
\* from the registry.
LiveSimulationIDsUnique ==
    /\ \A i, j \in SimIds : (i # j /\ Live(i) /\ Live(j)) => sims[i].sid # sims[j].sid
    /\ \A i \in SimIds : (Live(i) /\ sims[i].server) => sims[i].registered

\* C26: the probe for a free port and the launch of the simulator run under
\* the lock of _start_simulation: at most one startup is inside the section,
\* it holds the lock, and no two sessions whose simulator is up have the
\* same simulator port.
PortAllocationExclusive ==
    /\ \A s, t \in Starters : (InSection(s) /\ InSection(t)) => s = t
    /\ \A s \in Starters : InSection(s) => lock = s
    /\ \A s, t \in Starters :
          (s # t /\ SimulatorUp(s) /\ SimulatorUp(t)) => starting[s].port # starting[t].port

\* two simulators are up and a third startup is inside the section, past a
\* port that is in use
ThirdStartupProbes ==
    \E s, t, u \in Starters :
        /\ s # t /\ SimulatorUp(s) /\ SimulatorUp(t)
        /\ starting[s].pc = "started" /\ starting[t].pc = "started"
        /\ InSection(u)
        /\ starting[u].port \notin {0, FirstPort}

\* C27: a refused connection is never raised to the caller of
\* send_message_to_sim_node: it is retried after a sleep of 5 seconds until
\* a connection exists, the request is sent only then, and the one
\* connection serves every later request.
RefusedConnectionRetried ==
    /\ link.pc # "raised"
    /\ link.connects <= 1
    /\ link.slept \in {0, 5}
    /\ link.pc = "sleep" => ~link.socket
    /\ (link.pc = "send" \/ link.sent > 0) => (link.socket /\ link.connects = 1)

\* connections were refused, then one was made and served several requests
RequestsSentAfterRetries ==
    /\ link.refused >= 2
    /\ link.slept = 5
    /\ link.connects = 1
    /\ link.sent >= 2

\* C30: when the launch of the simulator fails in _start_simulation with
\* OSError or BNGValueError, the session is marked and its verification loop
\* does not run: no pollSensors, verify, requestAiFor or steps is sent.
FailedLaunchAbortsLoop ==
    launch \in {"OSError", "BNGValueError"} =>
        /\ hist.last_sent \notin CycleRequests
        /\ hist.cycles = 0

\* every request of the cycles thread returns: no exchange fails, and no
\* requestAiFor stays without its response
RequestsReturn ==
    /\ [](pc["cy"] # "dead")
    /\ []<>(pc["cy"] # "ai_resp")

\* C31: when every request to the sim node returns and time advances, the
\* verification loop of the session ends and the stop is eventually sent.
LoopEndsAndStopIsSent ==
    RequestsReturn => <>(hist.stops_sent = 1)

\* the pairs of requests the scheduler sends one after the other
RequestOrder ==
    { <<"-", "vids">>, <<"vids", "isRunning">>, <<"vids", "stop">>,
      <<"isRunning", "pollSensors">>, <<"isRunning", "stop">>,
      <<"pollSensors", "verify">>,
      <<"verify", "requestAiFor">>, <<"verify", "storeVerificationCycle">>,
      <<"verify", "stop">>,
      <<"requestAiFor", "storeVerificationCycle">>,
      <<"storeVerificationCycle", "steps">>,
      <<"steps", "isRunning">>, <<"steps", "stop">> }

\* a handler serves a requestAiFor request
GrantPcs == {"g_wait", "g_write", "g_poll", "g_ret"}

\* C32: in every cycle the requests go out in the order isRunning,
\* pollSensors, verify and, without a definitive result, requestAiFor for the
\* vehicles in turn and then steps: verify follows the return of pollSensors,
\* steps follows the return of every handshake of the cycle, and a cycle with
\* a definitive result sends neither requestAiFor nor steps.
CycleRequestsInOrder ==
    /\ [][ hist'.last_sent # hist.last_sent =>
              <<hist.last_sent, hist'.last_sent>> \in RequestOrder ]_vars
    /\ [][ (pc["cy"] = "ai_resp" /\ pc'["cy"] # "ai_resp" /\ pc'["cy"] # "dead") =>
              (pc["sess"] = "g_ret" /\ vidx' = vidx + 1) ]_vars
    /\ [](pc["cy"] = "verify" => hist.last_sent = "pollSensors")
    /\ [](pc["cy"] = "ai_resp" =>
              (hist.last_sent = "requestAiFor" /\ req_vid["sess"] = Vids[vidx]))
    /\ [](pc["cy"] = "steps" =>
              /\ vidx > Len(Vids)
              /\ pc["sess"] \notin GrantPcs
              /\ hist.last_sent = "storeVerificationCycle")
    /\ [](test_case_result # "UNKNOWN" =>
              /\ hist.last_sent \in {"verify", "stop"}
              /\ pc["cy"] \in {"loop", "put", "done"})

\* a cycle without a definitive result has sent steps after a handshake
StepsSentAfterHandshake ==
    /\ hist.last_sent = "steps"
    /\ hist.grants_written["v1"] >= 1
    /\ pc["cy"] = "loop"
    /\ test_case_result = "UNKNOWN"

\* the positions of the cycles thread between the answer to isRunning and
\* the end of the cycle
MidCyclePcs == {"poll", "verify", "map", "avs", "avs_mode", "ai_resp", "steps"}

\* where the cycles thread goes from a position of the cycle when the
\* simulator runs
CycleSuccessors(p) ==
    CASE p = "poll" -> {"verify"}
      [] p = "verify" -> {"map"}
      [] p = "map" -> {"loop", "avs"}
      [] p = "avs" -> {"avs_mode", "steps"}
      [] p = "avs_mode" -> {"ai_resp", "avs"}
      [] p = "ai_resp" -> {"avs"}
      [] p = "steps" -> {"loop"}

ResultOfTeardown(t) ==
    IF t = "sess" THEN cmd[t]
    ELSE CASE cmd[t] = "SUCCEED" -> "SUCCEEDED"
           [] cmd[t] = "FAIL" -> "FAILED"
           [] cmd[t] = "CANCEL" -> "SKIPPED"

\* C34: _control_sim sets the task state, then closes the simulator, then
\* stores the data, then removes the working directory; so whenever the
\* simulator of a torn-down session is seen as not running, its result is set.
TeardownInOrder ==
    /\ [](~bng => task_state \in TestResult)
    /\ [](stored => ~bng)
    /\ [](~user_path => stored)
    /\ [][ \A t \in ControlThreads :
              /\ (pc[t] = "cs_set" /\ pc'[t] # "cs_set") =>
                    (pc'[t] = "cs_close" /\ task_state' = ResultOfTeardown(t))
              /\ (pc[t] = "cs_close" /\ pc'[t] # "cs_close") =>
                    (pc'[t] \in {"cs_store", "cs_raised"} /\ ~bng' /\ task_state' = task_state)
              /\ (pc[t] = "cs_store" /\ pc'[t] # "cs_store") =>
                    (pc'[t] = "cs_rmtree" /\ stored' /\ user_path' = user_path)
              /\ (pc[t] = "cs_rmtree" /\ pc'[t] # "cs_rmtree") =>
                    (pc'[t] = "cs_ret" /\ ~user_path') ]_vars
    /\ [][ (task_state' # task_state \/ bng' # bng \/ stored' # stored
               \/ user_path' # user_path) =>
              \E t \in ControlThreads :
                  pc[t] \in {"cs_set", "cs_close", "cs_store", "cs_rmtree"} /\ pc'[t] # pc[t] ]_vars

\* a control request of the main application has torn the session down
TornDownByControl ==
    /\ ~bng /\ stored /\ ~user_path
    /\ task_state \in {"SUCCEEDED", "FAILED", "SKIPPED"}
    /\ hist.stops_sent = 0
    /\ controls = 1

\* C35: when first wait calls for different vehicles of a session interleave,
\* every call that has executed its registration step has its entry, with
\* the value WAITING: no entry is lost.
RegistrationKeepsEntries ==
    \A c \in Callers :
        callers[c].pc = "poll" =>
            (registered_sid /\ registered_ais[callers[c].vid] = "WAITING")

\* C36: a grant call returns only after the wait call that was pending when
\* REQUESTED was written has returned: the second loop of _request_ai_for is
\* never left while that wait call is still being served.
GrantReturnsAfterWake ==
    [][\A t \in GrantThreads :
          (pc[t] = "g_poll" /\ pc'[t] = "g_ret") => hist.handshake # "granted"]_vars

\* a grant has returned after the client it woke was answered RUNNING and
\* called again
GrantReturnedAfterWake ==
    /\ pc["sess"] = "g_ret"
    /\ hist.handshake = "woken"
    /\ bng

\* C37: over every interleaving of concurrent run_test_case calls no two
\* Simulations are given the same port, and when all calls are through the
\* counter has been incremented once per call.
PortsOwnAndCounted ==
    /\ \A q, r \in Runners :
           (q # r /\ runs[q].port # -1 /\ runs[r].port # -1) => runs[q].port # runs[r].port
    /\ (\A r \in Runners : runs[r].pc = "done") => counter = MaxRuns

\* C38: the startup lock is held only by a startup that is still between
\* lock.acquire() and lock.release() and so goes on to release it: no startup
\* has left _start_simulation with the lock.
LockHeldOnlyInside == lock # 0 => InSection(lock)

\* C39: eval of every atomic state condition on a vehicle the scenario
\* declares returns a member of KPValue.
EvalYieldsKPValue ==
    (evaluated \in StateConditions /\ criterion.participant \in VidSet) => value \in KPValue

\* C40: the first start_server call creates the server socket and its accept
\* thread; every later call on the Simulation raises ValueError, creates no
\* socket and no thread and leaves the existing socket as it is, so a
\* Simulation has at most one server.
ServerStartedOnce ==
    [][link'.start_calls = link.start_calls + 1 =>
          /\ link'.accept_threads <= 1
          /\ IF link.start_calls = 0
             THEN /\ link'.server_socket # 0
                  /\ link'.accept_threads = 1
                  /\ link'.value_errors = 0
             ELSE /\ link'.value_errors = link.value_errors + 1
                  /\ link'.server_socket = link.server_socket
                  /\ link'.accept_threads = link.accept_threads]_vars

\* a second start_server call has raised ValueError while requests use the
\* connection to the one server
SecondStartRaised ==
    /\ link.value_errors >= 1
    /\ link.accept_threads = 1
    /\ link.socket

====
